---- MODULE Spec2Model ----
(***************************************************************************)
(* BlockSim (mini_blockchain.py and its callers): blocks sealed by         *)
(* proof of work, the chain that links them, the pending-transaction       *)
(* queue, validation, tampering, textual balance replay, export and load.  *)
(*                                                                         *)
(* Python strings are TLA+ strings; TLC evaluates Len, \o, SubSeq, Head    *)
(* and Tail on them, so slicing, joining, splitting and substring tests    *)
(* are computed character by character as the code computes them.          *)
(***************************************************************************)
EXTENDS Integers, Sequences, FiniteSets, TLC

(***************************************************************************)
(* Bounds of the model.                                                    *)
(***************************************************************************)
\* Size of the digit alphabet of a digest (16 for a real hexdigest).
HexBase == 2
\* Longest chain a run builds (genesis included).
MaxChain == 3
\* Longest pending-transaction list a run queues.
MaxPending == 2
\* Last value of the wall clock.
MaxTime == 2
\* Most nodes a network run adds.
MaxNodes == 3
\* Longest chain a node of a network run holds (genesis included).
MaxNodeChain == 2
\* Most transactions a TransactionPool run holds.
MaxPool == 3
\* Highest balance a TransactionPool run credits to an address.
MaxBalance == 22

(***************************************************************************)
(* Program constants.                                                      *)
(***************************************************************************)
MIN_DIFFICULTY == 1
MAX_DIFFICULTY == 6
DEFAULT_DIFFICULTY == 2
MINING_REWARD == 100
\* NetworkNode.__init__: Blockchain(difficulty=2)
NODE_DIFFICULTY == 2
GENESIS_DATA == "Genesis Block - The beginning of BlockSim"
GENESIS_PREVIOUS_HASH == "0"
DELIMITER == " | "

(***************************************************************************)
(* Python string primitives.                                               *)
(***************************************************************************)
CharAt(s, i) == SubSeq(s, i, i)

\* s[:n]
Prefix(s, n) == SubSeq(s, 1, IF n < Len(s) THEN n ELSE Len(s))

\* c * n
RECURSIVE Repeat(_, _)
Repeat(c, n) == IF n <= 0 THEN "" ELSE c \o Repeat(c, n - 1)

\* s.startswith(p, at i)
MatchAt(s, p, i) == i + Len(p) - 1 <= Len(s) /\ SubSeq(s, i, i + Len(p) - 1) = p

\* p in s
Contains(p, s) == \E i \in 1..(Len(s) + 1) : MatchAt(s, p, i)

\* sep.join(parts)
RECURSIVE Join(_, _)
Join(parts, sep) ==
    IF Len(parts) = 0 THEN ""
    ELSE IF Len(parts) = 1 THEN parts[1]
    ELSE parts[1] \o sep \o Join(Tail(parts), sep)

\* The least of the positions `hits` of s, or Len(s) + 1 when there is none.
FirstFrom(s, hits) ==
    IF hits = {} THEN Len(s) + 1
    ELSE CHOOSE i \in hits : \A k \in hits : i <= k

\* s.split(sep) for a non-empty separator: the separators are taken leftmost
\* first and do not overlap; there is always at least one part.
RECURSIVE SplitFrom(_, _, _)
SplitFrom(s, sep, start) ==
    LET at == FirstFrom(s, {i \in start..Len(s) : MatchAt(s, sep, i)})
    IN  IF at > Len(s) THEN <<SubSeq(s, start, Len(s))>>
        ELSE <<SubSeq(s, start, at - 1)>> \o SplitFrom(s, sep, at + Len(sep))

Split(s, sep) == SplitFrom(s, sep, 1)

\* s.split(): split on runs of blanks, no empty parts.
RECURSIVE WordsFrom(_, _)
WordsFrom(s, from) ==
    LET first == FirstFrom(s, {i \in from..Len(s) : CharAt(s, i) # " "})
        stop == FirstFrom(s, {i \in first..Len(s) : CharAt(s, i) = " "})
    IN  IF first > Len(s) THEN <<>>
        ELSE <<SubSeq(s, first, stop - 1)>> \o WordsFrom(s, stop)

Words(s) == WordsFrom(s, 1)

DecimalDigits == "0123456789"

DigitValue(c) == CHOOSE d \in 0..9 : CharAt(DecimalDigits, d + 1) = c

IsDigit(c) == \E d \in 0..9 : CharAt(DecimalDigits, d + 1) = c

\* float(s) accepts s: the model knows unsigned decimal integers; every other
\* text raises ValueError.
IsNumber(s) == Len(s) > 0 /\ \A i \in 1..Len(s) : IsDigit(CharAt(s, i))

RECURSIVE ParseDigits(_, _)
ParseDigits(s, acc) ==
    IF Len(s) = 0 THEN acc
    ELSE ParseDigits(Tail(s), 10 * acc + DigitValue(Head(s)))

\* float(s), for IsNumber(s)
ParseFloat(s) == ParseDigits(s, 0)

(***************************************************************************)
(* The digest.  hashlib.sha256(...).hexdigest() is modelled as an ideal    *)
(* hash: its leading HexLen characters are digits computed from the text,  *)
(* and the rest of the digest is the text itself, so that two different    *)
(* texts never have the same digest (collision freedom).  The leading      *)
(* digits run through every value as the nonce grows, so a search for a    *)
(* zero prefix ends.                                                       *)
(***************************************************************************)
HexDigits == "0123456789abcdef"
\* One digit more than the highest difficulty of the range, so that a zero
\* prefix one longer than the range allows is still a prefix of digits.
HexLen == MAX_DIFFICULTY + 1

RECURSIVE Pow(_, _)
Pow(b, e) == IF e = 0 THEN 1 ELSE b * Pow(b, e - 1)

HexSpace == Pow(HexBase, HexLen)
NonceStride == HexBase + 1

Alphabet ==
    " \"#()*+,-./0123456789:;<=>?@ABCDEFGHIJKLMNOPQRSTUVWXYZ[]_abcdefghijklmnopqrstuvwxyz{|}"

CharCode == [c \in {CharAt(Alphabet, i) : i \in 1..Len(Alphabet)} |->
                CHOOSE i \in 1..Len(Alphabet) : CharAt(Alphabet, i) = c]

\* A checksum of the characters s[lo..hi], each weighted by its position.
Checksum(s, lo, hi) ==
    LET text == s
        part[r \in (0..(Len(text) + 1)) \X (0..(Len(text) + 1))] ==
            IF r[1] > r[2] THEN 0
            ELSE IF r[1] = r[2]
                 THEN (CharCode[CharAt(text, r[1])] * ((r[1] % 7) + 1)) % HexSpace
                 ELSE (part[<<r[1], (r[1] + r[2]) \div 2>>]
                       + part[<<((r[1] + r[2]) \div 2) + 1, r[2]>>]) % HexSpace
    IN  part[<<lo, hi>>]

\* v written with `width` digits of base HexBase, most significant first.
RECURSIVE ToHex(_, _)
ToHex(v, width) ==
    IF width = 0 THEN ""
    ELSE ToHex(v \div HexBase, width - 1) \o CharAt(HexDigits, (v % HexBase) + 1)

\* json.dumps({...}, sort_keys=True) of the five hashed fields.
JsonDumps(index, timestamp, data, previous_hash, nonce) ==
    "{\"data\": \"" \o data \o "\", \"index\": " \o ToString(index)
    \o ", \"nonce\": " \o ToString(nonce)
    \o ", \"previous_hash\": \"" \o previous_hash
    \o "\", \"timestamp\": " \o ToString(timestamp) \o "}"

\* hexdigest of a text whose leading digits have the value v.
Sha256Hex(block_string, v) == ToHex(v, HexLen) \o block_string

(***************************************************************************)
(* Block.  A block is a record of the six attributes of a Block object.    *)
(***************************************************************************)
\* Block.calculate_hash
CalculateHash(b) ==
    LET block_string == JsonDumps(b.index, b.timestamp, b.data, b.previous_hash, b.nonce)
        salt == JsonDumps(b.index, b.timestamp, b.data, b.previous_hash, 0)
        seed == Checksum(salt, 1, Len(salt))
    IN  Sha256Hex(block_string, (seed + NonceStride * b.nonce) % HexSpace)

\* Block.__init__: `timestamp or time.time()` takes the clock when the argument
\* is None or zero (0 stands for both); nonce 0; hash of the fresh fields.
NewBlock(index, data, previous_hash, timestamp, clock) ==
    LET fields == [index |-> index,
                   timestamp |-> IF timestamp = 0 THEN clock ELSE timestamp,
                   data |-> data,
                   previous_hash |-> previous_hash,
                   nonce |-> 0,
                   hash |-> ""]
    IN  [fields EXCEPT !.hash = CalculateHash(fields)]

\* Mutants of the loop condition: one character too few, one too many.
UnsealedShort(b, d) == Prefix(b.hash, d - 1) # Repeat("0", d - 1)

UnsealedLong(b, d) == Prefix(b.hash, d + 1) # Repeat("0", d + 1)

\* The loop condition of Block.mine_block: self.hash[:difficulty] != target.
Unsealed(b, d) == Prefix(b.hash, d) # Repeat("0", d)

\* Mutant of the loop body: the digest is taken before the nonce is bumped.
MineStepSwapped(b) == [b EXCEPT !.hash = CalculateHash(b), !.nonce = b.nonce + 1]

\* Mutant of the loop body: the block is stamped anew on every attempt.
MineStepRestamp(b) ==
    LET bumped == [b EXCEPT !.nonce = b.nonce + 1, !.timestamp = b.timestamp + 1]
    IN  [bumped EXCEPT !.hash = CalculateHash(bumped)]

\* One iteration of the loop of Block.mine_block.
MineStep(b) ==
    LET bumped == [b EXCEPT !.nonce = b.nonce + 1]
    IN  [bumped EXCEPT !.hash = CalculateHash(bumped)]

\* Block.to_dict
ToDict(b) ==
    [index |-> b.index, timestamp |-> b.timestamp, data |-> b.data,
     previous_hash |-> b.previous_hash, hash |-> b.hash, nonce |-> b.nonce]

(***************************************************************************)
(* Inputs of the runs.                                                     *)
(***************************************************************************)
Accounts == {"A", "B"}
Amounts == {10}
RewardAddresses == {"Miner"}
\* Difficulties the ledger runs construct their chain with.
LedgerDifficulties == {1, 2}
DirectData == {"Block 1"}
TamperData == {"Tampered data"}
Workers == {"w1", "w2"}

\* app.py add_transaction / explorer add_transaction: the text of a transfer.
TransferText(sender, amount, receiver) ==
    sender \o " sends " \o ToString(amount) \o " coins to " \o receiver

Transfers == {t \in [sender : Accounts, amount : Amounts, receiver : Accounts] :
                 t.sender # t.receiver}

(***************************************************************************)
(* State.                                                                  *)
(*   blockchain  the Blockchain object the caller holds (explorer's        *)
(*               self.blockchain, app.py's global), or None                *)
(*   frame       per worker, the position and locals of the call it runs   *)
(*   now         time.time()                                               *)
(*   file        the exported JSON document, if one was written            *)
(*   hist        history of the run: what was called, for stating claims   *)
(*   network     the BlockchainNetwork: its nodes (each a NetworkNode with *)
(*               its own Blockchain; peers are held as positions in the    *)
(*               node list) and its transaction_pool                       *)
(*   tx_pool     the TransactionPool: transactions and balances            *)
(*   call        history: the mining round, the handing over of a block or *)
(*               the call to tx_pool that was the last step, with the      *)
(*               object as the call found it and what it returned          *)
(***************************************************************************)
VARIABLES blockchain, frame, now, file, hist, network, tx_pool, call

vars == <<blockchain, frame, now, file, hist, network, tx_pool, call>>

\* The objects of advanced_features.py, which the ledger operations leave alone.
advanced == <<network, tx_pool, call>>

\* The objects of the ledger, which the network and the pool leave alone.
ledger == <<blockchain, frame, file, hist>>

None == [none |-> TRUE]

\* No file has been written.
NoFile == [written |-> FALSE, records |-> <<>>]

NoBlock == [index |-> 0, timestamp |-> 0, data |-> "", previous_hash |-> "",
            nonce |-> 0, hash |-> ""]

\* pc, op: the statement the call is at and the method called; address, data,
\* index, difficulty, block: its arguments and locals; before: the Blockchain
\* as the call found it (history, for stating what the call changed); result:
\* what a query returned.
IdleFrame == [pc |-> "idle", op |-> "", address |-> "", data |-> "", index |-> 0,
              difficulty |-> 0, block |-> NoBlock, before |-> None, result |-> None]

\* direct, flush: calls of add_block_direct, and of mine_pending_transactions
\* that found entries; tampered, loaded: a block was tampered with, the chain
\* was loaded from a file; queued, mined: the transfers queued and the entries
\* flushed, as records; exported: the chain as it was when the file was written.
NoHistory == [direct |-> 0, flush |-> 0, tampered |-> FALSE, loaded |-> FALSE,
              queued |-> <<>>, mined |-> <<>>, exported |-> <<>>]

\* BlockchainNetwork.__init__: no nodes, an empty transaction pool.
NewNetwork == [nodes |-> <<>>, transaction_pool |-> <<>>]

\* TransactionPool.__init__: no transactions, no balances.
NewTransactionPool == [transactions |-> <<>>, balances |-> [address \in {} |-> 0]]

\* The last step was none of the calls that are recorded.
NoCall == [op |-> "", before |-> None, result |-> None]

Init ==
    /\ blockchain = None
    /\ frame = [w \in Workers |-> IdleFrame]
    /\ now = 1
    /\ file = NoFile
    /\ hist = NoHistory
    /\ network = NewNetwork
    /\ tx_pool = NewTransactionPool
    /\ call = NoCall

Exists == blockchain # None

\* Mutant of get_latest_block: the first block instead of the last.
GetFirstBlock(bc) == bc.chain[1]

\* Blockchain.get_latest_block
GetLatestBlock(bc) == bc.chain[Len(bc.chain)]

\* time.time(): the clock has moved on by the time it is read, or it has not.
Clock == {t \in now..MaxTime : t <= now + 1}

\* A call has returned; the worker is free for the next call.
Return(w) ==
    /\ frame[w].pc = "done"
    /\ frame' = [frame EXCEPT ![w] = IdleFrame]
    /\ UNCHANGED <<blockchain, now, file, hist, advanced>>

(***************************************************************************)
(* Construction: explorer.create_blockchain checks the range, then         *)
(* Blockchain.__init__ builds and mines the genesis block; the object is   *)
(* assigned to its holder when the constructor returns.                    *)
(***************************************************************************)
\* Blockchain(difficulty=d): __init__ stores the difficulty as given and
\* create_genesis_block builds the genesis block.
NewBlockchain(w, d) ==
    /\ frame[w].pc = "idle"
    /\ blockchain = None
    /\ \A v \in Workers : frame[v].op # "create"
    /\ \E t \in Clock :
        /\ now' = t
        /\ frame' = [frame EXCEPT ![w] =
                        [IdleFrame EXCEPT !.pc = "mine", !.op = "create", !.difficulty = d,
                            !.block = NewBlock(0, GENESIS_DATA, GENESIS_PREVIOUS_HASH, 0, t)]]
    /\ UNCHANGED <<blockchain, file, hist, advanced>>

\* explorer.create_blockchain: `if difficulty < 1 or difficulty > 6: return`,
\* else Blockchain(difficulty=difficulty).
CreateBlockchain(w, d) ==
    IF d < MIN_DIFFICULTY \/ d > MAX_DIFFICULTY
    THEN /\ frame[w].pc = "idle"
         /\ blockchain = None
         /\ frame' = [frame EXCEPT ![w] =
                         [IdleFrame EXCEPT !.pc = "done", !.op = "create_rejected",
                                           !.difficulty = d]]
         /\ UNCHANGED <<blockchain, now, file, hist, advanced>>
    ELSE NewBlockchain(w, d)

\* Mutant of the loop: the search gives up after eight attempts.
MineLoopCapped(w) ==
    /\ frame[w].pc = "mine"
    /\ Unsealed(frame[w].block, frame[w].difficulty)
    /\ frame[w].block.nonce < 8
    /\ frame' = [frame EXCEPT ![w].block = MineStep(@)]
    /\ UNCHANGED <<blockchain, now, file, hist, advanced>>

\* One iteration of `while self.hash[:difficulty] != target`.
MineLoop(w) ==
    /\ frame[w].pc = "mine"
    /\ Unsealed(frame[w].block, frame[w].difficulty)
    /\ frame' = [frame EXCEPT ![w].block = MineStep(@)]
    /\ UNCHANGED <<blockchain, now, file, hist, advanced>>

\* mine_block returns to create_genesis_block, which appends; __init__ returns.
GenesisAppend(w) ==
    /\ frame[w].pc = "mine"
    /\ frame[w].op = "create"
    /\ ~Unsealed(frame[w].block, frame[w].difficulty)
    /\ blockchain' = [chain |-> <<frame[w].block>>,
                      difficulty |-> frame[w].difficulty,
                      pending_transactions |-> <<>>,
                      mining_reward |-> MINING_REWARD]
    /\ frame' = [frame EXCEPT ![w].pc = "done"]
    /\ hist' = NoHistory
    /\ UNCHANGED <<now, file, advanced>>

(***************************************************************************)
(* Blockchain.add_transaction                                              *)
(***************************************************************************)
AddTransaction(w, t) ==
    /\ frame[w].pc = "idle"
    /\ Exists
    /\ Len(blockchain.pending_transactions) < MaxPending
    /\ blockchain' = [blockchain EXCEPT !.pending_transactions =
                         Append(@, TransferText(t.sender, t.amount, t.receiver))]
    /\ hist' = [hist EXCEPT !.queued = Append(@, [kind |-> "transfer", sender |-> t.sender,
                                                  amount |-> t.amount, receiver |-> t.receiver])]
    /\ frame' = [frame EXCEPT ![w] = [IdleFrame EXCEPT !.pc = "done", !.op = "add_transaction",
                                                        !.before = blockchain]]
    /\ UNCHANGED <<now, file, advanced>>

(***************************************************************************)
(* Blockchain.mine_pending_transactions and Blockchain.add_block_direct,   *)
(* statement by statement.  With one worker a call returns before the      *)
(* next one starts; with two, the statements of two calls interleave.      *)
(***************************************************************************)
\* Calls under way that will append a block to the chain.
Appending == {w \in Workers : frame[w].op \in {"mine_pending", "direct"}
                              /\ frame[w].pc \in {"build", "index", "new", "mine"}}

Room == Exists /\ Len(blockchain.chain) + Cardinality(Appending) < MaxChain

\* Mutant of the entry of mine_pending_transactions: no test for an empty list.
MptCheckAlways(w, address) ==
    /\ frame[w].pc = "idle"
    /\ Exists /\ Len(blockchain.chain) < MaxChain
    /\ frame' = [frame EXCEPT ![w] =
                    [frame[w] EXCEPT !.pc = "build", !.op = "mine_pending",
                                     !.address = address, !.before = blockchain]]
    /\ UNCHANGED <<blockchain, now, file, hist, advanced>>

\* `if not self.pending_transactions: return`
MptCheck(w, address) ==
    /\ frame[w].pc = "idle"
    /\ Room
    /\ IF blockchain.pending_transactions = <<>>
       THEN /\ frame' = [frame EXCEPT ![w] =
                            [IdleFrame EXCEPT !.pc = "done", !.op = "mine_nothing",
                                              !.address = address, !.before = blockchain]]
            /\ UNCHANGED <<hist, advanced>>
       ELSE /\ frame' = [frame EXCEPT ![w] =
                            [IdleFrame EXCEPT !.pc = "build", !.op = "mine_pending",
                                              !.address = address, !.before = blockchain]]
            /\ hist' = [hist EXCEPT !.flush = @ + 1]
    /\ UNCHANGED <<blockchain, now, file, advanced>>

\* The reward entry of mine_pending_transactions.
RewardText(reward, address) ==
    "Mining Reward: " \o ToString(reward) \o " coins to " \o address

\* Mutant of the payload: the reward entry first.
MptBuildRewardFirst(w) ==
    /\ frame[w].pc = "build"
    /\ frame' = [frame EXCEPT
                    ![w].data = Join(<<RewardText(blockchain.mining_reward, frame[w].address)>>
                                     \o blockchain.pending_transactions, DELIMITER),
                    ![w].pc = "index"]
    /\ UNCHANGED <<blockchain, now, file, hist, advanced>>

\* transactions = pending + [reward]; transaction_data = " | ".join(transactions)
MptBuild(w) ==
    /\ frame[w].pc = "build"
    /\ LET reward_transaction == RewardText(blockchain.mining_reward, frame[w].address)
           transactions == blockchain.pending_transactions \o <<reward_transaction>>
       IN  frame' = [frame EXCEPT ![w].data = Join(transactions, DELIMITER),
                                  ![w].pc = "index"]
    /\ UNCHANGED <<blockchain, now, file, hist, advanced>>

\* add_block_direct(data) is entered.
AddBlockDirect(w, data) ==
    /\ frame[w].pc = "idle"
    /\ Room
    /\ frame' = [frame EXCEPT ![w] =
                    [IdleFrame EXCEPT !.pc = "index", !.op = "direct", !.data = data,
                                      !.before = blockchain]]
    /\ hist' = [hist EXCEPT !.direct = @ + 1]
    /\ UNCHANGED <<blockchain, now, file, advanced>>

\* Mutant of the index: one past the chain's length.
BlockIndexNext(w) ==
    /\ frame[w].pc = "index"
    /\ frame' = [frame EXCEPT ![w].index = Len(blockchain.chain) + 1, ![w].pc = "new"]
    /\ UNCHANGED <<blockchain, now, file, hist, advanced>>

\* index=len(self.chain)
BlockIndex(w) ==
    /\ frame[w].pc = "index"
    /\ frame' = [frame EXCEPT ![w].index = Len(blockchain.chain), ![w].pc = "new"]
    /\ UNCHANGED <<blockchain, now, file, hist, advanced>>

\* previous_hash=self.get_latest_block().hash; Block.__init__; the difficulty
\* argument of mine_block is read.
BlockNew(w) ==
    /\ frame[w].pc = "new"
    /\ blockchain.chain # <<>>
    /\ \E t \in Clock :
        /\ now' = t
        /\ frame' = [frame EXCEPT
                        ![w].block = NewBlock(frame[w].index, frame[w].data,
                                              GetLatestBlock(blockchain).hash, 0, t),
                        ![w].difficulty = blockchain.difficulty,
                        ![w].pc = "mine"]
    /\ UNCHANGED <<blockchain, file, hist, advanced>>

\* Mutant of the append: the block is inserted before mining has finished.
BlockAppendEarly(w) ==
    /\ frame[w].pc = "mine"
    /\ frame[w].op \in {"mine_pending", "direct"}
    /\ blockchain' = [blockchain EXCEPT !.chain = Append(@, frame[w].block)]
    /\ frame' = [frame EXCEPT ![w].pc = IF frame[w].op = "direct" THEN "done" ELSE "clear"]
    /\ UNCHANGED <<now, file, hist, advanced>>

\* Mutant of the append: the block is put at the head of the list.
BlockAppendFront(w) ==
    /\ frame[w].pc = "mine"
    /\ frame[w].op \in {"mine_pending", "direct"}
    /\ ~Unsealed(frame[w].block, frame[w].difficulty)
    /\ blockchain' = [blockchain EXCEPT !.chain = <<frame[w].block>> \o @]
    /\ frame' = [frame EXCEPT ![w].pc = IF frame[w].op = "direct" THEN "done" ELSE "clear"]
    /\ UNCHANGED <<now, file, hist, advanced>>

\* self.chain.append(new_block)
BlockAppend(w) ==
    /\ frame[w].pc = "mine"
    /\ frame[w].op \in {"mine_pending", "direct"}
    /\ ~Unsealed(frame[w].block, frame[w].difficulty)
    /\ blockchain' = [blockchain EXCEPT !.chain = Append(@, frame[w].block)]
    /\ frame' = [frame EXCEPT ![w].pc = IF frame[w].op = "direct" THEN "done" ELSE "clear"]
    /\ UNCHANGED <<now, file, hist, advanced>>

\* self.pending_transactions = []
MptClear(w) ==
    /\ frame[w].pc = "clear"
    /\ blockchain' = [blockchain EXCEPT !.pending_transactions = <<>>]
    /\ frame' = [frame EXCEPT ![w].pc = "done"]
    /\ hist' = [hist EXCEPT
                   !.mined = @ \o hist.queued
                               \o <<[kind |-> "reward", sender |-> "",
                                     amount |-> blockchain.mining_reward,
                                     receiver |-> frame[w].address]>>,
                   !.queued = <<>>]
    /\ UNCHANGED <<now, file, advanced>>

(***************************************************************************)
(* Blockchain.tamper_with_block                                            *)
(***************************************************************************)
\* Mutant of the range test: no lower bound, a negative index counts from the
\* end of the list.
TamperWithBlockWrap(w, block_index, new_data) ==
    /\ frame[w].pc = "idle"
    /\ Exists
    /\ IF block_index < Len(blockchain.chain)
       THEN LET at == IF block_index < 0 THEN Len(blockchain.chain) + block_index + 1
                      ELSE block_index + 1
            IN  /\ blockchain' = [blockchain EXCEPT !.chain[at].data = new_data]
                /\ hist' = [hist EXCEPT !.tampered = TRUE]
                /\ frame' = [frame EXCEPT ![w] =
                                [IdleFrame EXCEPT !.pc = "done", !.op = "tamper",
                                                  !.index = block_index, !.data = new_data,
                                                  !.before = blockchain]]
       ELSE /\ frame' = [frame EXCEPT ![w] =
                            [IdleFrame EXCEPT !.pc = "done", !.op = "tamper_missing",
                                              !.index = block_index, !.data = new_data,
                                              !.before = blockchain]]
            /\ UNCHANGED <<blockchain, hist, advanced>>
    /\ UNCHANGED <<now, file, advanced>>

\* Mutant of the assignment: the block's hash is recomputed after the write.
TamperWithBlockRehash(w, block_index, new_data) ==
    /\ frame[w].pc = "idle"
    /\ Exists
    /\ IF 0 <= block_index /\ block_index < Len(blockchain.chain)
       THEN /\ LET block == [blockchain.chain[block_index + 1] EXCEPT !.data = new_data]
               IN  blockchain' = [blockchain EXCEPT !.chain[block_index + 1] =
                                     [block EXCEPT !.hash = CalculateHash(block)]]
            /\ hist' = [hist EXCEPT !.tampered = TRUE]
            /\ frame' = [frame EXCEPT ![w] =
                            [IdleFrame EXCEPT !.pc = "done", !.op = "tamper",
                                              !.index = block_index, !.data = new_data,
                                              !.before = blockchain]]
       ELSE /\ frame' = [frame EXCEPT ![w] =
                            [IdleFrame EXCEPT !.pc = "done", !.op = "tamper_missing",
                                              !.index = block_index, !.data = new_data,
                                              !.before = blockchain]]
            /\ UNCHANGED <<blockchain, hist, advanced>>
    /\ UNCHANGED <<now, file, advanced>>

TamperWithBlock(w, block_index, new_data) ==
    /\ frame[w].pc = "idle"
    /\ Exists
    /\ IF 0 <= block_index /\ block_index < Len(blockchain.chain)
       THEN /\ blockchain' = [blockchain EXCEPT !.chain[block_index + 1].data = new_data]
            /\ hist' = [hist EXCEPT !.tampered = TRUE]
            /\ frame' = [frame EXCEPT ![w] =
                            [IdleFrame EXCEPT !.pc = "done", !.op = "tamper",
                                              !.index = block_index, !.data = new_data,
                                              !.before = blockchain]]
       ELSE /\ frame' = [frame EXCEPT ![w] =
                            [IdleFrame EXCEPT !.pc = "done", !.op = "tamper_missing",
                                              !.index = block_index, !.data = new_data,
                                              !.before = blockchain]]
            /\ UNCHANGED <<blockchain, hist, advanced>>
    /\ UNCHANGED <<now, file, advanced>>

(***************************************************************************)
(* Blockchain.is_chain_valid                                               *)
(***************************************************************************)
\* Mutant of is_chain_valid: only the last block is examined.
IsChainValidTipOnly(bc) ==
    \A i \in {Len(bc.chain)} \ {1} :
        LET current_block == bc.chain[i]
            previous_block == bc.chain[i - 1]
        IN  /\ ~(current_block.hash # CalculateHash(current_block))
            /\ ~(current_block.previous_hash # previous_block.hash)

\* Mutant of is_chain_valid: the links are compared, no hash is recomputed.
IsChainValidLinksOnly(bc) ==
    \A i \in 2..Len(bc.chain) :
        LET current_block == bc.chain[i]
            previous_block == bc.chain[i - 1]
        IN  ~(current_block.previous_hash # previous_block.hash)

IsChainValid(bc) ==
    \A i \in 2..Len(bc.chain) :
        LET current_block == bc.chain[i]
            previous_block == bc.chain[i - 1]
        IN  /\ ~(current_block.hash # CalculateHash(current_block))
            /\ ~(current_block.previous_hash # previous_block.hash)

(***************************************************************************)
(* Blockchain.export_chain and BlockchainExplorer.load_blockchain.  The    *)
(* file holds the list of the blocks' dictionaries.  A run writes the file  *)
(* once and loads it once, at any two moments.                             *)
(***************************************************************************)
ExportChain(w) ==
    /\ frame[w].pc = "idle"
    /\ Exists
    /\ ~file.written
    /\ file' = [written |-> TRUE,
                records |-> [i \in 1..Len(blockchain.chain) |-> ToDict(blockchain.chain[i])]]
    /\ hist' = [hist EXCEPT !.exported = blockchain.chain]
    /\ frame' = [frame EXCEPT ![w] =
                    [IdleFrame EXCEPT !.pc = "done", !.op = "export", !.before = blockchain]]
    /\ UNCHANGED <<blockchain, now, advanced>>

\* Mutant of the loop body of load_blockchain: the nonce is not restored.
BlockFromRecordFresh(block_data, clock) ==
    [NewBlock(block_data.index, block_data.data, block_data.previous_hash,
              block_data.timestamp, clock) EXCEPT !.hash = block_data.hash]

\* The loop body of load_blockchain: Block(...), then hash and nonce are set.
BlockFromRecord(block_data, clock) ==
    LET block == NewBlock(block_data.index, block_data.data, block_data.previous_hash,
                          block_data.timestamp, clock)
    IN  [block EXCEPT !.hash = block_data.hash, !.nonce = block_data.nonce]

\* The keys that the loop body of load_blockchain reads from a record.
RequiredFields == {"index", "data", "previous_hash", "timestamp", "hash", "nonce"}

\* No block_data[...] of the loop body raises KeyError on this record.
HasRequiredFields(block_data) == RequiredFields \subseteq DOMAIN block_data

\* The number of records that the loop of load_blockchain gets through: all of
\* them, or those before the first record that raises.
RecordsRead(records) ==
    LET raising == {i \in 1..Len(records) : ~HasRequiredFields(records[i])}
    IN  IF raising = {} THEN Len(records)
        ELSE (CHOOSE i \in raising : \A j \in raising : i <= j) - 1

\* load_blockchain: a Blockchain(difficulty=2) whose chain is emptied and then
\* filled from the records (the genesis block mined by the constructor is
\* dropped with the emptied chain).  A record that lacks a key raises KeyError
\* inside the try block; `except Exception` prints "Load failed" and the
\* method returns, the new Blockchain holding the blocks appended so far.
LoadBlockchain(w) ==
    /\ frame[w].pc = "idle"
    /\ file.written
    /\ ~hist.loaded
    /\ \E t \in Clock :
        /\ now' = t
        /\ blockchain' = [chain |-> [i \in 1..RecordsRead(file.records) |->
                                        BlockFromRecord(file.records[i], t)],
                          difficulty |-> DEFAULT_DIFFICULTY,
                          pending_transactions |-> <<>>,
                          mining_reward |-> MINING_REWARD]
    /\ hist' = [hist EXCEPT !.loaded = TRUE, !.queued = <<>>]
    /\ frame' = [frame EXCEPT ![w] =
                    [IdleFrame EXCEPT !.pc = "done",
                        !.op = IF RecordsRead(file.records) = Len(file.records)
                               THEN "load" ELSE "load_failed",
                        !.before = blockchain]]
    /\ UNCHANGED <<file, advanced>>

\* The file that load_blockchain opens is named by the user and is whatever
\* is on disk.  Between the export and the load the file is edited once: its
\* first record is deleted, or one key of one record is.
FileAsExported ==
    /\ file.written
    /\ ~hist.loaded
    /\ file.records = [i \in 1..Len(hist.exported) |-> ToDict(hist.exported[i])]

DropFirstRecord ==
    /\ FileAsExported
    /\ file' = [file EXCEPT !.records = Tail(@)]
    /\ UNCHANGED <<blockchain, frame, now, hist, advanced>>

DropField(i, field) ==
    /\ FileAsExported
    /\ i \in 1..Len(file.records)
    /\ file' = [file EXCEPT !.records[i] =
                    [f \in (DOMAIN @) \ {field} |-> @[f]]]
    /\ UNCHANGED <<blockchain, frame, now, hist, advanced>>

(***************************************************************************)
(* Blockchain.get_balance.  The result is the balance, or the fact that    *)
(* the call raised (float() of a text that is no number: ValueError;       *)
(* parts[5] of a five-word entry: IndexError).                             *)
(***************************************************************************)
Raised == [raises |-> TRUE, balance |-> 0]

Returned(n) == [raises |-> FALSE, balance |-> n]

\* Mutant of the transfer branch: the recipient is taken one word early.
EntryEffectWrongWord(transaction, address) ==
    LET parts == Words(transaction)
    IN  IF Contains("sends", transaction) /\ Contains("to", transaction)
        THEN IF Len(parts) >= 5
             THEN IF ~IsNumber(parts[3])
                  THEN Raised
                  ELSE LET sender == parts[1]
                           amount == ParseFloat(parts[3])
                           recipient == parts[5]
                       IN  Returned((IF sender = address THEN 0 - amount ELSE 0)
                                    + (IF recipient = address THEN amount ELSE 0))
             ELSE Returned(0)
        ELSE IF Contains("Mining Reward:", transaction) /\ Contains(address, transaction)
        THEN IF Len(parts) >= 3
             THEN IF ~IsNumber(parts[3]) THEN Raised ELSE Returned(ParseFloat(parts[3]))
             ELSE Returned(0)
        ELSE Returned(0)

\* The body of `for transaction in transactions`: what one entry adds.
EntryEffect(transaction, address) ==
    LET parts == Words(transaction)
    IN  IF Contains("sends", transaction) /\ Contains("to", transaction)
        THEN IF Len(parts) >= 5
             THEN IF ~IsNumber(parts[3]) \/ Len(parts) < 6
                  THEN Raised
                  ELSE LET sender == parts[1]
                           amount == ParseFloat(parts[3])
                           recipient == parts[6]
                       IN  Returned((IF sender = address THEN 0 - amount ELSE 0)
                                    + (IF recipient = address THEN amount ELSE 0))
             ELSE Returned(0)
        ELSE IF Contains("Mining Reward:", transaction) /\ Contains(address, transaction)
        THEN IF Len(parts) >= 3
             THEN IF ~IsNumber(parts[3]) THEN Raised ELSE Returned(ParseFloat(parts[3]))
             ELSE Returned(0)
        ELSE Returned(0)

\* The running balance after one more effect.
Accumulate(sofar, effect) ==
    IF sofar.raises \/ effect.raises THEN Raised
    ELSE Returned(sofar.balance + effect.balance)

RECURSIVE EntriesEffect(_, _, _)
EntriesEffect(transactions, address, sofar) ==
    IF transactions = <<>> THEN sofar
    ELSE EntriesEffect(Tail(transactions), address,
                       Accumulate(sofar, EntryEffect(Head(transactions), address)))

RECURSIVE BlocksEffect(_, _, _)
BlocksEffect(blocks, address, sofar) ==
    IF blocks = <<>> THEN sofar
    ELSE LET block == Head(blocks)
         IN  BlocksEffect(Tail(blocks), address,
                          IF block.index = 0 THEN sofar
                          ELSE EntriesEffect(Split(block.data, DELIMITER), address, sofar))

GetBalance(bc, address) == BlocksEffect(bc.chain, address, Returned(0))

(***************************************************************************)
(* Calls of the two queries.  Neither method has an assignment to an       *)
(* attribute of the Blockchain or of a block: calculate_hash returns the   *)
(* digest without storing it.  is_chain_valid has no statement that can    *)
(* raise on a chain of blocks whose fields are texts and numbers.          *)
(***************************************************************************)
\* Mutant of is_chain_valid: a stale hash is written back where one is found.
IsChainValidCallRepair(w) ==
    /\ frame[w].pc = "idle"
    /\ Exists
    /\ frame' = [frame EXCEPT ![w] =
                    [IdleFrame EXCEPT !.pc = "done", !.op = "is_chain_valid",
                        !.before = blockchain,
                        !.result = [raises |-> FALSE, valid |-> IsChainValid(blockchain)]]]
    /\ LET repaired(b) == [b EXCEPT !.hash = CalculateHash(b)]
       IN  blockchain' = [blockchain EXCEPT !.chain =
                             [i \in 1..Len(blockchain.chain) |->
                                 repaired(blockchain.chain[i])]]
    /\ UNCHANGED <<now, file, hist, advanced>>

\* blockchain.is_chain_valid()
IsChainValidCall(w) ==
    /\ frame[w].pc = "idle"
    /\ Exists
    /\ frame' = [frame EXCEPT ![w] =
                    [IdleFrame EXCEPT !.pc = "done", !.op = "is_chain_valid",
                        !.before = blockchain,
                        !.result = [raises |-> FALSE, valid |-> IsChainValid(blockchain)]]]
    /\ UNCHANGED <<blockchain, now, file, hist, advanced>>

\* blockchain.get_balance(address)
GetBalanceCall(w, address) ==
    /\ frame[w].pc = "idle"
    /\ Exists
    /\ frame' = [frame EXCEPT ![w] =
                    [IdleFrame EXCEPT !.pc = "done", !.op = "get_balance",
                        !.address = address, !.before = blockchain,
                        !.result = GetBalance(blockchain, address)]]
    /\ UNCHANGED <<blockchain, now, file, hist, advanced>>

(***************************************************************************)
(* advanced_features.py: NetworkNode and BlockchainNetwork.  The network   *)
(* simulation runs in one thread, so each method is one step.              *)
(***************************************************************************)
\* Block.mine_block from call to return.
MineBlock(b, difficulty) ==
    LET Blocks == [index : Nat, timestamp : Nat, data : STRING, previous_hash : STRING,
                   nonce : Nat, hash : STRING]
        mined[block \in Blocks] ==
            IF Unsealed(block, difficulty) THEN mined[MineStep(block)] ELSE block
    IN  mined[b]

\* Blockchain(difficulty) constructed when the clock reads `clock`.
Blockchain(difficulty, clock) ==
    [chain |-> <<MineBlock(NewBlock(0, GENESIS_DATA, GENESIS_PREVIOUS_HASH, 0, clock),
                           difficulty)>>,
     difficulty |-> difficulty,
     pending_transactions |-> <<>>,
     mining_reward |-> MINING_REWARD]

\* NetworkNode.__init__
NetworkNode(node_id, stake, clock) ==
    [node_id |-> node_id, stake |-> stake,
     blockchain |-> Blockchain(NODE_DIFFICULTY, clock),
     peers |-> <<>>, is_online |-> TRUE]

\* x in seq
InSeq(x, seq) == \E i \in 1..Len(seq) : seq[i] = x

\* Mutant of add_peer: the connection is not entered at the peer.
AddPeerOneWay(nodes, self, peer) ==
    IF InSeq(peer, nodes[self].peers) THEN nodes
    ELSE [nodes EXCEPT ![self].peers = Append(@, peer)]

\* NetworkNode.add_peer, of the node at position `self` with the one at `peer`.
AddPeer(nodes, self, peer) ==
    IF InSeq(peer, nodes[self].peers) THEN nodes
    ELSE LET entered == [nodes EXCEPT ![self].peers = Append(@, peer)]
         IN  [entered EXCEPT ![peer].peers = Append(@, self)]

\* `for existing_node in self.nodes[:-1]: node.add_peer(existing_node)`, from
\* the k-th existing node on.
RECURSIVE AddPeers(_, _, _)
AddPeers(nodes, node, k) ==
    IF k >= Len(nodes) THEN nodes
    ELSE AddPeers(AddPeer(nodes, node, k), node, k + 1)

\* The identifiers that add_node is called with, in the order of the calls.
NodeIds == <<"Node1", "Node2", "Node3">>

\* BlockchainNetwork.add_node
AddNode(node_id, stake) ==
    /\ Len(network.nodes) < MaxNodes
    /\ \E t \in Clock :
        /\ now' = t
        /\ LET appended == Append(network.nodes, NetworkNode(node_id, stake, t))
           IN  network' = [network EXCEPT !.nodes = AddPeers(appended, Len(appended), 1)]
    /\ call' = NoCall
    /\ UNCHANGED <<ledger, tx_pool>>

\* `node.is_online = False`, as the demonstration does with one of its nodes.
GoOffline(n) ==
    /\ n \in 1..Len(network.nodes)
    /\ \A m \in 1..Len(network.nodes) : network.nodes[m].is_online
    /\ network' = [network EXCEPT !.nodes[n].is_online = FALSE]
    /\ call' = NoCall
    /\ UNCHANGED <<ledger, now, tx_pool>>

\* BlockchainNetwork.simulate_transaction
SimulateTransaction(sender, receiver, amount) ==
    /\ Len(network.transaction_pool) < MaxPending
    /\ network' = [network EXCEPT !.transaction_pool =
                        Append(@, TransferText(sender, amount, receiver))]
    /\ call' = NoCall
    /\ UNCHANGED <<ledger, now, tx_pool>>

\* Mutant of the test of validate_and_add_block: the link alone decides.
AcceptsOnLinkAlone(node, block) ==
    GetLatestBlock(node.blockchain).hash = block.previous_hash

\* The test of validate_and_add_block: the block's index is the length of the
\* receiver's chain and its previous_hash is the hash of the receiver's tip.
Accepts(node, block) ==
    /\ Len(node.blockchain.chain) = block.index
    /\ GetLatestBlock(node.blockchain).hash = block.previous_hash

\* NetworkNode.validate_and_add_block: the node after the call.
ValidateAndAddBlock(node, block) ==
    IF Accepts(node, block)
    THEN [node EXCEPT !.blockchain.chain = Append(@, block)]
    ELSE node

\* The loop of broadcast_block over self.peers, from the k-th peer on.
RECURSIVE BroadcastFrom(_, _, _, _)
BroadcastFrom(nodes, peers, k, block) ==
    IF k > Len(peers) THEN nodes
    ELSE BroadcastFrom(IF nodes[peers[k]].is_online
                       THEN [nodes EXCEPT ![peers[k]] = ValidateAndAddBlock(@, block)]
                       ELSE nodes,
                       peers, k + 1, block)

\* Mutant of broadcast_block: the first peer is passed over.
BroadcastBlockFromSecond(nodes, self, block) ==
    IF ~nodes[self].is_online THEN nodes
    ELSE BroadcastFrom(nodes, nodes[self].peers, 2, block)

\* NetworkNode.broadcast_block
BroadcastBlock(nodes, self, block) ==
    IF ~nodes[self].is_online THEN nodes
    ELSE BroadcastFrom(nodes, nodes[self].peers, 1, block)

\* The block that NetworkNode.mine_block builds and mines.
NodeNewBlock(node, data, clock) ==
    MineBlock(NewBlock(Len(node.blockchain.chain),
                       "[" \o node.node_id \o "] " \o data,
                       GetLatestBlock(node.blockchain).hash, 0, clock),
              node.blockchain.difficulty)

\* Mutant of NetworkNode.mine_block: is_online is not asked for.
NodeMineBlockAnyway(nodes, self, data, clock) ==
    LET new_block == NodeNewBlock(nodes[self], data, clock)
    IN  BroadcastBlock([nodes EXCEPT ![self].blockchain.chain = Append(@, new_block)],
                       self, new_block)

\* NetworkNode.mine_block: the nodes after the call.
NodeMineBlock(nodes, self, data, clock) ==
    IF ~nodes[self].is_online THEN nodes
    ELSE LET new_block == NodeNewBlock(nodes[self], data, clock)
         IN  BroadcastBlock([nodes EXCEPT ![self].blockchain.chain = Append(@, new_block)],
                            self, new_block)

\* online_nodes of random_mining_round and check_consensus, as positions.
OnlineNodes(net) == {n \in 1..Len(net.nodes) : net.nodes[n].is_online}

\* Mutant of the payload of a mining round: the newest transaction alone.
RoundPayloadNewest(pool) == pool[Len(pool)]

\* `" | ".join(self.transaction_pool)`
RoundPayload(pool) == Join(pool, DELIMITER)

\* BlockchainNetwork.random_mining_round; random.choice picks any online node.
RandomMiningRound ==
    /\ \A n \in 1..Len(network.nodes) :
            Len(network.nodes[n].blockchain.chain) < MaxNodeChain
    /\ \/ /\ \/ network.transaction_pool = <<>>
              \/ network.nodes = <<>>
              \/ OnlineNodes(network) = {}
          /\ now' = now
          /\ network' = network
          /\ call' = [op |-> "random_mining_round", before |-> network,
                      result |-> [mined |-> FALSE]]
       \/ /\ network.transaction_pool # <<>>
          /\ \E miner \in OnlineNodes(network), t \in Clock :
                /\ now' = t
                /\ network' = [nodes |-> NodeMineBlock(network.nodes, miner,
                                            RoundPayload(network.transaction_pool), t),
                               transaction_pool |-> <<>>]
                /\ call' = [op |-> "random_mining_round", before |-> network,
                            result |-> [mined |-> TRUE, miner |-> miner]]
    /\ UNCHANGED <<ledger, tx_pool>>

\* node.mine_block("Direct block"), called on the node itself, online or not.
MineBlockCall(n) ==
    /\ n \in 1..Len(network.nodes)
    /\ Len(network.nodes[n].blockchain.chain) < MaxNodeChain
    /\ \E t \in Clock :
        /\ now' = t
        /\ network' = [network EXCEPT !.nodes =
                            NodeMineBlock(network.nodes, n, "Direct block", t)]
        /\ call' = [op |-> "mine_block", before |-> network, result |-> [node |-> n]]
    /\ UNCHANGED <<ledger, tx_pool>>

\* `nodes[n].blockchain.chain[i] is nodes[m].blockchain.chain[j]`.  A genesis
\* block is made by its node's own Blockchain(); every later block enters a
\* chain as the object that mine_block made, appended by the miner and, as the
\* same object, by each peer that accepts it.  Two mine_block calls make blocks
\* of different hashes (the data carries the miner's id, and one miner's
\* blocks differ in index), and tamper_with_block writes data only, so past
\* the genesis block two entries are one object exactly when they are equal.
SameBlockObject(nodes, n, i, m, j) ==
    \/ n = m /\ i = j
    \/ /\ i = j
       /\ i >= 2
       /\ nodes[n].blockchain.chain[i] = nodes[m].blockchain.chain[j]

\* nodes[n].blockchain.tamper_with_block(block_index, new_data): the nodes
\* after the call.  The assignment writes the block object, and with it every
\* chain that holds the object.
NodeTamper(nodes, n, block_index, new_data) ==
    IF 0 <= block_index /\ block_index < Len(nodes[n].blockchain.chain)
    THEN [m \in 1..Len(nodes) |->
            LET chain == nodes[m].blockchain.chain
                written == [j \in 1..Len(chain) |->
                                IF SameBlockObject(nodes, n, block_index + 1, m, j)
                                THEN [data |-> new_data] @@ chain[j]
                                ELSE chain[j]]
            IN  [blockchain |-> [chain |-> written] @@ nodes[m].blockchain] @@ nodes[m]]
    ELSE nodes

NodeTamperWithBlock(n, block_index, new_data) ==
    /\ n \in 1..Len(network.nodes)
    /\ network' = [network EXCEPT !.nodes = NodeTamper(network.nodes, n, block_index, new_data)]
    /\ call' = [op |-> "tamper_with_block", before |-> network,
                result |-> [node |-> n, index |-> block_index]]
    /\ UNCHANGED <<ledger, now, tx_pool>>

\* The blocks that a node is handed in a direct call of validate_and_add_block:
\* any index, linked to the tip of any node's chain or to nothing.
ProposedLinks ==
    {GetLatestBlock(network.nodes[n].blockchain).hash : n \in 1..Len(network.nodes)}
        \cup {GENESIS_PREVIOUS_HASH}

\* node.validate_and_add_block(Block(index, data, previous_hash)): the method
\* takes the block as it is handed over, sealed or not.
ReceiveBlock(n, index, previous_hash) ==
    /\ n \in 1..Len(network.nodes)
    /\ Len(network.nodes[n].blockchain.chain) < MaxNodeChain
    /\ LET block == NewBlock(index, "Exclusive block", previous_hash, 0, now)
       IN  /\ network' = [network EXCEPT !.nodes[n] = ValidateAndAddBlock(@, block)]
           /\ call' = [op |-> "validate_and_add_block", before |-> network,
                       result |-> [node |-> n, block |-> block,
                                   accepted |-> Accepts(network.nodes[n], block)]]
    /\ UNCHANGED <<ledger, now, tx_pool>>

\* BlockchainNetwork.check_consensus
CheckConsensus(net) ==
    IF net.nodes = <<>> THEN TRUE
    ELSE IF OnlineNodes(net) = {} THEN TRUE
    ELSE LET reference_node == CHOOSE n \in OnlineNodes(net) :
                                  \A m \in OnlineNodes(net) : n <= m
             chain_of(n) == net.nodes[n].blockchain.chain
             ref_length == Len(chain_of(reference_node))
             ref_hash == IF chain_of(reference_node) # <<>>
                         THEN GetLatestBlock(net.nodes[reference_node].blockchain).hash
                         ELSE ""
         IN  \A n \in OnlineNodes(net) \ {reference_node} :
                ~(\/ Len(chain_of(n)) # ref_length
                  \/ (chain_of(n) # <<>>
                        /\ GetLatestBlock(net.nodes[n].blockchain).hash # ref_hash))

(***************************************************************************)
(* advanced_features.py: TransactionPool.  balances is the dictionary: a   *)
(* function on the addresses that have an entry.                           *)
(***************************************************************************)
\* self.balances.get(address, 0)
BalanceOf(balances, address) ==
    IF address \in DOMAIN balances THEN balances[address] ELSE 0

\* TransactionPool.update_balance
UpdateBalance(address, amount) ==
    /\ BalanceOf(tx_pool.balances, address) + amount <= MaxBalance
    /\ tx_pool' = [tx_pool EXCEPT !.balances =
                        [a \in (DOMAIN @) \cup {address} |->
                            IF a = address THEN BalanceOf(@, address) + amount ELSE @[a]]]
    /\ call' = NoCall
    /\ UNCHANGED <<ledger, now, network>>

\* TransactionPool.sign_transaction: the first 16 characters of the digest.
SignTransaction(sender, receiver, amount, fee) ==
    LET data == sender \o receiver \o ToString(amount) \o ToString(fee)
    IN  Prefix(Sha256Hex(data, Checksum(data, 1, Len(data))), 16)

\* Mutant of the balance test: the balance must exceed amount + fee.
AffordableStrict(balances, sender, amount, fee) ==
    BalanceOf(balances, sender) > amount + fee

\* The balance test of add_transaction, negated: not
\* `self.balances.get(sender, 0) < amount + fee`.
Affordable(balances, sender, amount, fee) ==
    ~(BalanceOf(balances, sender) < amount + fee)

\* TransactionPool.add_transaction
PoolAddTransaction(sender, receiver, amount, fee) ==
    /\ Len(tx_pool.transactions) < MaxPool
    /\ IF ~Affordable(tx_pool.balances, sender, amount, fee)
       THEN /\ tx_pool' = tx_pool
            /\ now' = now
            /\ call' = [op |-> "add_transaction", before |-> tx_pool,
                        result |-> [returned |-> FALSE, sender |-> sender,
                                    receiver |-> receiver, amount |-> amount, fee |-> fee]]
       ELSE \E t \in Clock :
            /\ now' = t
            /\ tx_pool' = [tx_pool EXCEPT !.transactions = Append(@,
                              [sender |-> sender, receiver |-> receiver, amount |-> amount,
                               fee |-> fee, timestamp |-> t,
                               signature |-> SignTransaction(sender, receiver, amount, fee)])]
            /\ call' = [op |-> "add_transaction", before |-> tx_pool,
                        result |-> [returned |-> TRUE, sender |-> sender,
                                    receiver |-> receiver, amount |-> amount, fee |-> fee]]
    /\ UNCHANGED <<ledger, network>>

\* Mutant of the sort: a transaction goes before those that pay the same fee.
InsertByFeeAhead(sorted, x) ==
    LET k == Cardinality({i \in 1..Len(sorted) : sorted[i].fee > x.fee})
    IN  SubSeq(sorted, 1, k) \o <<x>> \o SubSeq(sorted, k + 1, Len(sorted))

\* Where sorted(..., key=fee, reverse=True) puts x, which comes after the
\* transactions of `sorted` in the list: behind all that pay at least its fee
\* (the sort is stable, also when reversed).
InsertByFee(sorted, x) ==
    LET k == Cardinality({i \in 1..Len(sorted) : sorted[i].fee >= x.fee})
    IN  SubSeq(sorted, 1, k) \o <<x>> \o SubSeq(sorted, k + 1, Len(sorted))

\* sorted(self.transactions, key=lambda x: x['fee'], reverse=True)
RECURSIVE SortedByFee(_)
SortedByFee(transactions) ==
    IF transactions = <<>> THEN <<>>
    ELSE InsertByFee(SortedByFee(SubSeq(transactions, 1, Len(transactions) - 1)),
                     transactions[Len(transactions)])

\* seq[:limit]
SliceTo(seq, limit) ==
    IF limit >= 0
    THEN SubSeq(seq, 1, IF limit < Len(seq) THEN limit ELSE Len(seq))
    ELSE SubSeq(seq, 1, IF Len(seq) + limit > 0 THEN Len(seq) + limit ELSE 0)

\* TransactionPool.get_pending_transactions
GetPendingTransactions(limit) ==
    /\ call' = [op |-> "get_pending_transactions", before |-> tx_pool,
                result |-> [limit |-> limit,
                            returned |-> SliceTo(SortedByFee(tx_pool.transactions), limit)]]
    /\ UNCHANGED <<ledger, now, network, tx_pool>>

\* The amounts credited and the fees offered in the runs of the pool.
Credits == {11}
Fees == {1, 2}

(***************************************************************************)
(* Block.mine_block called on a fresh block (test_blockchain.py,           *)
(* TestBlock.test_mining).                                                 *)
(***************************************************************************)
FreshData == {"Test transaction", "A sends 10 coins to B"}
FreshPrevious == {"0", "previous_hash_123"}

MineBlockReturn(w) ==
    /\ frame[w].pc = "mine"
    /\ frame[w].op = "mine_block"
    /\ ~Unsealed(frame[w].block, frame[w].difficulty)
    /\ frame' = [frame EXCEPT ![w].pc = "done"]
    /\ UNCHANGED <<blockchain, now, file, hist, advanced>>

InitMine ==
    /\ blockchain = None
    /\ file = NoFile
    /\ hist = NoHistory
    /\ network = NewNetwork
    /\ tx_pool = NewTransactionPool
    /\ call = NoCall
    /\ now \in 1..MaxTime
    /\ \E index \in 0..MaxChain, data \in FreshData, previous_hash \in FreshPrevious,
          d \in MIN_DIFFICULTY..MAX_DIFFICULTY :
          frame = [w \in Workers |->
                      IF w = "w1"
                      THEN [IdleFrame EXCEPT !.pc = "mine", !.op = "mine_block",
                               !.difficulty = d,
                               !.block = NewBlock(index, data, previous_hash, 0, now)]
                      ELSE IdleFrame]

NextMine == MineLoop("w1") \/ MineBlockReturn("w1")

SpecMine == InitMine /\ [][NextMine]_vars

\* The thread that called mine_block keeps running: whichever of the loop's
\* next iteration and its exit is due is eventually taken.
SpecMineFair == SpecMine /\ WF_vars(NextMine)

(***************************************************************************)
(* Construction alone, at every difficulty the explorer lets through.      *)
(***************************************************************************)
NextCreate ==
    \/ \E d \in MIN_DIFFICULTY..MAX_DIFFICULTY : CreateBlockchain("w1", d)
    \/ MineLoop("w1")
    \/ GenesisAppend("w1")
    \/ Return("w1")

SpecCreate == Init /\ [][NextCreate]_vars

(***************************************************************************)
(* The library used directly: Blockchain(difficulty=d) as the tests and    *)
(* the launcher call it, next to the explorer's create_blockchain, with    *)
(* difficulties in and around the range.                                   *)
(***************************************************************************)
AnyDifficulties == (MIN_DIFFICULTY - 1)..(MAX_DIFFICULTY + 1)

NextLibrary ==
    \/ \E d \in AnyDifficulties : NewBlockchain("w1", d)
    \/ \E d \in AnyDifficulties : CreateBlockchain("w1", d)
    \/ MineLoop("w1")
    \/ GenesisAppend("w1")
    \/ Return("w1")

SpecLibrary == Init /\ [][NextLibrary]_vars

(***************************************************************************)
(* Free-text payloads: add_block_direct and tamper_with_block take any     *)
(* text, transfers and texts that only look like transfers among them.     *)
(***************************************************************************)
FreeTexts == {"Block 1",
              "A sends 10 coins to B | B sends 10 coins to B",
              "A sends ten coins to B",
              "A sends 10 coins to"}

NextPayload ==
    \E w \in {"w1"} :
        \/ Return(w)
        \/ NewBlockchain(w, MIN_DIFFICULTY)
        \/ MineLoop(w)
        \/ GenesisAppend(w)
        \/ \E d \in FreeTexts : AddBlockDirect(w, d)
        \/ BlockIndex(w)
        \/ BlockNew(w)
        \/ BlockAppend(w)
        \/ \E i \in 0..(MaxChain - 1), d \in FreeTexts : TamperWithBlock(w, i, d)

SpecPayload == Init /\ [][NextPayload]_vars

Next ==
    \E w \in {"w1"} :
        \/ Return(w)
        \/ \E d \in LedgerDifficulties : CreateBlockchain(w, d)
        \/ MineLoop(w)
        \/ GenesisAppend(w)
        \/ \E t \in Transfers : AddTransaction(w, t)
        \/ \E a \in RewardAddresses : MptCheck(w, a)
        \/ MptBuild(w)
        \/ \E d \in DirectData : AddBlockDirect(w, d)
        \/ BlockIndex(w)
        \/ BlockNew(w)
        \/ BlockAppend(w)
        \/ MptClear(w)
        \/ \E i \in -1..MaxChain, d \in TamperData : TamperWithBlock(w, i, d)

Spec == Init /\ [][Next]_vars

(***************************************************************************)
(* The explorer: one Blockchain, its export file and loading it back.      *)
(***************************************************************************)
NextExplorer ==
    \E w \in {"w1"} :
        \/ Return(w)
        \/ \E d \in LedgerDifficulties : CreateBlockchain(w, d)
        \/ MineLoop(w)
        \/ GenesisAppend(w)
        \/ \E d \in DirectData : AddBlockDirect(w, d)
        \/ BlockIndex(w)
        \/ BlockNew(w)
        \/ BlockAppend(w)
        \/ \E i \in 0..(MaxChain - 1), d \in TamperData : TamperWithBlock(w, i, d)
        \/ ExportChain(w)
        \/ LoadBlockchain(w)

SpecExplorer == Init /\ [][NextExplorer]_vars

(***************************************************************************)
(* The explorer loading a file that was edited after it was exported.      *)
(***************************************************************************)
NextImport ==
    \/ \E w \in {"w1"} :
        \/ Return(w)
        \/ \E d \in LedgerDifficulties : CreateBlockchain(w, d)
        \/ MineLoop(w)
        \/ GenesisAppend(w)
        \/ \E d \in DirectData : AddBlockDirect(w, d)
        \/ BlockIndex(w)
        \/ BlockNew(w)
        \/ BlockAppend(w)
        \/ ExportChain(w)
        \/ LoadBlockchain(w)
    \/ DropFirstRecord
    \/ \E i \in 1..MaxChain, field \in RequiredFields : DropField(i, field)

SpecImport == Init /\ [][NextImport]_vars

(***************************************************************************)
(* The web dashboard (app.py): init_blockchain() builds the global         *)
(* Blockchain(difficulty=2); the handlers of /add_transaction and /mine    *)
(* run on their own threads and share it, so the statements of two calls   *)
(* interleave.                                                             *)
(***************************************************************************)
\* The transfer the dashboard's form posts in these runs.
PostedTransfers == {t \in Transfers : t.sender = "A"}

NextConcurrent ==
    \E w \in Workers :
        \/ Return(w)
        \/ CreateBlockchain(w, DEFAULT_DIFFICULTY)
        \/ MineLoop(w)
        \/ GenesisAppend(w)
        \/ \E t \in PostedTransfers : AddTransaction(w, t)
        \/ \E a \in RewardAddresses : MptCheck(w, a)
        \/ MptBuild(w)
        \/ BlockIndex(w)
        \/ BlockNew(w)
        \/ BlockAppend(w)
        \/ MptClear(w)

SpecConcurrent == Init /\ [][NextConcurrent]_vars

(***************************************************************************)
(* A network simulation: nodes are added, one may go offline, transactions *)
(* are pooled, rounds are mined, and nodes are handed blocks.              *)
(***************************************************************************)
NextNetwork ==
    \/ AddNode(NodeIds[Len(network.nodes) + 1], 0)
    \/ \E n \in 1..MaxNodes : GoOffline(n)
    \/ \E t \in Transfers : SimulateTransaction(t.sender, t.receiver, t.amount)
    \/ RandomMiningRound

SpecNetwork == Init /\ [][NextNetwork]_vars

(***************************************************************************)
(* Nodes that are handed blocks: by the broadcast of a mining round, and   *)
(* by direct calls of validate_and_add_block with blocks of any index and  *)
(* link.                                                                   *)
(***************************************************************************)
NextPropose ==
    \/ AddNode(NodeIds[Len(network.nodes) + 1], 0)
    \/ \E t \in PostedTransfers : SimulateTransaction(t.sender, t.receiver, t.amount)
    \/ RandomMiningRound
    \/ \E n \in 1..MaxNodes, index \in 1..MaxNodeChain, previous_hash \in ProposedLinks :
            ReceiveBlock(n, index, previous_hash)

SpecPropose == Init /\ [][NextPropose]_vars

(***************************************************************************)
(* A network with a node that has gone offline: rounds are mined, and      *)
(* mine_block is called on nodes directly, the offline one included.       *)
(***************************************************************************)
NextOffline ==
    \/ AddNode(NodeIds[Len(network.nodes) + 1], 0)
    \/ \E n \in 1..MaxNodes : GoOffline(n)
    \/ \E t \in PostedTransfers : SimulateTransaction(t.sender, t.receiver, t.amount)
    \/ RandomMiningRound
    \/ \E n \in 1..MaxNodes : MineBlockCall(n)

SpecOffline == Init /\ [][NextOffline]_vars

(***************************************************************************)
(* A network whose nodes' chains are tampered with, before and after       *)
(* blocks have been mined and broadcast.                                   *)
(***************************************************************************)
NextShared ==
    \/ AddNode(NodeIds[Len(network.nodes) + 1], 0)
    \/ \E t \in PostedTransfers : SimulateTransaction(t.sender, t.receiver, t.amount)
    \/ RandomMiningRound
    \/ \E n \in 1..MaxNodes, i \in 0..MaxNodeChain, d \in TamperData :
            NodeTamperWithBlock(n, i, d)

SpecShared == Init /\ [][NextShared]_vars

(***************************************************************************)
(* A TransactionPool: balances are credited, transactions are offered with *)
(* a fee, and the pending transactions are asked for with a limit of zero  *)
(* or more.                                                                *)
(***************************************************************************)
NextPool ==
    \/ \E address \in Accounts, amount \in Credits : UpdateBalance(address, amount)
    \/ \E t \in Transfers, fee \in Fees :
            PoolAddTransaction(t.sender, t.receiver, t.amount, fee)
    \/ \E limit \in 0..(MaxPool + 1) : GetPendingTransactions(limit)

SpecPool == Init /\ [][NextPool]_vars

(***************************************************************************)
(* One caller using all of a Blockchain: transfers are queued and flushed, *)
(* blocks are added directly, blocks are tampered with, and the chain is   *)
(* validated and balances are asked for in between.                        *)
(***************************************************************************)
NextLedger ==
    \E w \in {"w1"} :
        \/ Return(w)
        \/ NewBlockchain(w, MIN_DIFFICULTY)
        \/ MineLoop(w)
        \/ GenesisAppend(w)
        \/ \E t \in PostedTransfers : AddTransaction(w, t)
        \/ \E a \in RewardAddresses : MptCheck(w, a)
        \/ MptBuild(w)
        \/ \E d \in DirectData : AddBlockDirect(w, d)
        \/ BlockIndex(w)
        \/ BlockNew(w)
        \/ BlockAppend(w)
        \/ MptClear(w)
        \/ \E i \in 0..(MaxChain - 1), d \in FreeTexts : TamperWithBlock(w, i, d)
        \/ IsChainValidCall(w)
        \/ \E a \in Accounts \cup RewardAddresses : GetBalanceCall(w, a)

SpecLedger == Init /\ [][NextLedger]_vars

(***************************************************************************)
(* The explorer validating what it holds: chains it built, chains it       *)
(* tampered with, and chains it loaded from a file that was edited, which  *)
(* may be shorter than the export or empty.                                *)
(***************************************************************************)
NextAudit ==
    \/ \E w \in {"w1"} :
        \/ Return(w)
        \/ CreateBlockchain(w, MIN_DIFFICULTY)
        \/ MineLoop(w)
        \/ GenesisAppend(w)
        \/ \E d \in DirectData : AddBlockDirect(w, d)
        \/ BlockIndex(w)
        \/ BlockNew(w)
        \/ BlockAppend(w)
        \/ \E i \in 0..(MaxChain - 1), d \in TamperData : TamperWithBlock(w, i, d)
        \/ ExportChain(w)
        \/ LoadBlockchain(w)
        \/ IsChainValidCall(w)
    \/ DropFirstRecord
    \/ \E i \in 1..MaxChain, field \in RequiredFields : DropField(i, field)

SpecAudit == Init /\ [][NextAudit]_vars

(***************************************************************************)
(* The claims.                                                             *)
(***************************************************************************)
\* Every worker is between calls, or at the return of one.
AllReturned == \A w \in Workers : frame[w].pc \in {"idle", "done"}

\* A call of `op` by worker w has just returned.
Done(w, op) == frame[w].pc = "done" /\ frame[w].op = op

\* The first d characters of digest h are all "0".
ZeroPrefix(h, d) == Len(h) >= d /\ \A i \in 1..d : CharAt(h, i) = "0"

\* C1: right after construction at any difficulty 1..6 the chain is one block
\* with index 0, previous_hash "0" and the genesis text, whose hash starts with
\* `difficulty` zeros; nothing is pending and is_chain_valid() is true.
C1_GenesisAfterConstruction ==
    \A w \in Workers :
        Done(w, "create") =>
            /\ Exists
            /\ blockchain.difficulty = frame[w].difficulty
            /\ Len(blockchain.chain) = 1
            /\ blockchain.chain[1].index = 0
            /\ blockchain.chain[1].previous_hash = "0"
            /\ blockchain.chain[1].data = "Genesis Block - The beginning of BlockSim"
            /\ ZeroPrefix(blockchain.chain[1].hash, blockchain.difficulty)
            /\ blockchain.pending_transactions = <<>>
            /\ IsChainValid(blockchain)

C1_Witness ==
    /\ Done("w1", "create")
    /\ blockchain.difficulty = 6
    /\ blockchain.chain[1].nonce > 0

\* C2: with no tamper, after every call of add_block_direct, add_transaction or
\* mine_pending_transactions the chain is valid and its length is 1 + the
\* number of add_block_direct calls + the number of mine_pending_transactions
\* calls that found entries pending.
C2_ValidAndCounted ==
    (Exists /\ AllReturned /\ ~hist.tampered /\ ~hist.loaded) =>
        /\ IsChainValid(blockchain)
        /\ Len(blockchain.chain) = 1 + hist.direct + hist.flush

C2_Witness ==
    /\ Exists /\ AllReturned /\ ~hist.tampered /\ ~hist.loaded
    /\ hist.direct >= 1 /\ hist.flush >= 1
    /\ Len(blockchain.chain) = 3

\* C3: a tamper_with_block call that changes the data of any block, the
\* genesis block included, leaves is_chain_valid() false.
C3_TamperDetected ==
    \A w \in Workers :
        (Done(w, "tamper")
         /\ frame[w].before.chain[frame[w].index + 1].data # frame[w].data)
            => ~IsChainValid(blockchain)

\* C4: when mine_block returns, the stored hash is calculate_hash() of the
\* block's fields and its first `difficulty` characters are zeros.
C4_SealedOnReturn ==
    \A w \in Workers :
        Done(w, "mine_block") =>
            /\ frame[w].block.hash = CalculateHash(frame[w].block)
            /\ ZeroPrefix(frame[w].block.hash, frame[w].difficulty)

C4_Witness ==
    /\ Done("w1", "mine_block")
    /\ frame["w1"].difficulty >= 3
    /\ frame["w1"].block.nonce > 0

\* The digest of block b with nonce n has d leading zeros.
QualifiesAt(b, n, d) == ZeroPrefix(CalculateHash([b EXCEPT !.nonce = n]), d)

C6_FlushAppendsOneBlock ==
    \A w \in Workers :
        Done(w, "mine_pending") =>
            LET before == frame[w].before
                chain == blockchain.chain
                n == Len(before.chain)
            IN  /\ before.pending_transactions # <<>>
                /\ Len(chain) = n + 1
                /\ SubSeq(chain, 1, n) = before.chain
                /\ Split(chain[n + 1].data, " | ")
                     = before.pending_transactions
                       \o <<"Mining Reward: 100 coins to " \o frame[w].address>>
                /\ chain[n + 1].previous_hash = before.chain[n].hash
                /\ blockchain.pending_transactions = <<>>

C6_Witness ==
    /\ Done("w1", "mine_pending")
    /\ Len(frame["w1"].before.pending_transactions) = 2
    /\ frame["w1"].before.pending_transactions[1]
         # frame["w1"].before.pending_transactions[2]

\* C7: mine_pending_transactions entered with nothing pending returns with the
\* Blockchain (chain, pending_transactions, difficulty) as it found it.
C7_EmptyFlushIsNoOp ==
    \A w \in Workers :
        (/\ frame[w].pc = "done"
         /\ frame[w].op \in {"mine_pending", "mine_nothing"}
         /\ frame[w].before.pending_transactions = <<>>)
            => blockchain = frame[w].before

C7_Witness ==
    /\ Done("w1", "mine_nothing")
    /\ Len(blockchain.chain) >= 2

\* What the flushed entries give address x: transfers received minus transfers
\* sent plus the rewards addressed to x.
RECURSIVE LedgerBalance(_, _)
LedgerBalance(entries, x) ==
    IF entries = <<>> THEN 0
    ELSE LET e == Head(entries)
         IN  (IF e.receiver = x THEN e.amount ELSE 0)
             - (IF e.kind = "transfer" /\ e.sender = x THEN e.amount ELSE 0)
             + LedgerBalance(Tail(entries), x)

QueryAddresses == Accounts \cup RewardAddresses \cup {"Mine"}

\* C8: on a chain built only by queueing transfers and flushing them,
\* get_balance(x) is what the flushed entries give x, for every address x.
C8_BalanceIsLedger ==
    (Exists /\ AllReturned /\ hist.direct = 0 /\ ~hist.tampered /\ ~hist.loaded) =>
        \A x \in QueryAddresses :
            GetBalance(blockchain, x) = Returned(LedgerBalance(hist.mined, x))

\* C9: loading an exported chain gives back the exported blocks field for
\* field (stale hashes included), and is_chain_valid() answers on the loaded
\* chain what it answers on the exported one.
C9_LoadRestoresExport ==
    \A w \in Workers :
        Done(w, "load") =>
            /\ Len(blockchain.chain) = Len(hist.exported)
            /\ \A i \in 1..Len(hist.exported) :
                /\ blockchain.chain[i].index = hist.exported[i].index
                /\ blockchain.chain[i].timestamp = hist.exported[i].timestamp
                /\ blockchain.chain[i].data = hist.exported[i].data
                /\ blockchain.chain[i].previous_hash = hist.exported[i].previous_hash
                /\ blockchain.chain[i].hash = hist.exported[i].hash
                /\ blockchain.chain[i].nonce = hist.exported[i].nonce
            /\ IsChainValid(blockchain) = IsChainValid([chain |-> hist.exported])

C9_Witness ==
    /\ Done("w1", "load")
    /\ Len(blockchain.chain) = 3
    /\ ~IsChainValid(blockchain)
    /\ \E i \in 1..3 : blockchain.chain[i].nonce > 0

\* C10: calls of add_block_direct and mine_pending_transactions that run at
\* the same time are serialized: no two blocks of the chain have the same
\* previous_hash or the same index, and the chain stays valid.
C10_AppendsSerialized ==
    Exists =>
        /\ \A i, j \in 1..Len(blockchain.chain) :
              i # j => /\ blockchain.chain[i].previous_hash # blockchain.chain[j].previous_hash
                       /\ blockchain.chain[i].index # blockchain.chain[j].index
        /\ IsChainValid(blockchain)

\* The transfer entries in the chain's non-genesis payloads, as the set of
\* their places (block, position in the payload).
MinedTransferPlaces(bc) ==
    {pl \in (2..Len(bc.chain)) \X (1..MaxPending + 2) :
        LET entries == Split(bc.chain[pl[1]].data, " | ")
        IN  /\ pl[2] <= Len(entries)
            /\ \E t \in Transfers :
                  entries[pl[2]] = TransferText(t.sender, t.amount, t.receiver)}

\* The number of transfers queued by add_transaction so far.
QueuedSoFar ==
    Len(hist.queued) + Cardinality({k \in 1..Len(hist.mined) : hist.mined[k].kind = "transfer"})

\* C11: under any interleaving of add_transaction and mine_pending_transactions
\* every queued entry is either still pending or in exactly one block's
\* payload: whenever no flush is between its append and its clear, the entries
\* queued so far are as many as the pending entries plus the mined ones.
C11_NoEntryLostOrDuplicated ==
    (Exists /\ ~hist.tampered /\ \A w \in Workers : frame[w].pc # "clear") =>
        QueuedSoFar = Len(blockchain.pending_transactions)
                      + Cardinality(MinedTransferPlaces(blockchain))

\* C12: a reader never finds a block mid-append: at every moment every block
\* in the chain is sealed, its stored hash being its recomputed digest and
\* starting with `difficulty` zeros, while calls are mining their blocks.
C12_ChainBlocksSealed ==
    Exists =>
        \A i \in 1..Len(blockchain.chain) :
            /\ blockchain.chain[i].hash = CalculateHash(blockchain.chain[i])
            /\ ZeroPrefix(blockchain.chain[i].hash, blockchain.difficulty)

C12_Witness ==
    /\ Exists
    /\ Len(blockchain.chain) >= 2
    /\ \E w \in Workers :
          /\ frame[w].pc = "mine"
          /\ frame[w].op = "mine_pending"
          /\ frame[w].block.nonce > 0
          /\ Unsealed(frame[w].block, frame[w].difficulty)

C20_TamperChangesDataOnly ==
    \A w \in Workers :
        Done(w, "tamper") =>
            /\ 0 <= frame[w].index /\ frame[w].index < Len(frame[w].before.chain)
            /\ blockchain = [frame[w].before EXCEPT
                                !.chain[frame[w].index + 1].data = frame[w].data]

C20_Witness ==
    /\ Done("w1", "tamper")
    /\ frame["w1"].index = 1
    /\ Len(blockchain.chain) = 3
    /\ blockchain.chain[2].data # frame["w1"].before.chain[2].data
    /\ blockchain.pending_transactions # <<>>

\* C14: creating a chain with a difficulty outside 1..6 fails: no genesis
\* mining is started and no chain is created for such a difficulty.
C14_InvalidDifficultyRejected ==
    /\ \A w \in Workers :
          frame[w].op = "create" =>
              (MIN_DIFFICULTY <= frame[w].difficulty /\ frame[w].difficulty <= MAX_DIFFICULTY)
    /\ Exists =>
          (MIN_DIFFICULTY <= blockchain.difficulty /\ blockchain.difficulty <= MAX_DIFFICULTY)

\* C15: get_balance never fails on payload content: whatever texts
\* add_block_direct appended and tamper_with_block wrote, get_balance returns
\* a number for every address.
C15_BalanceNeverFails ==
    (Exists /\ AllReturned) =>
        \A x \in QueryAddresses : ~GetBalance(blockchain, x).raises

\* A reward entry, as mine_pending_transactions writes it, and its recipient.
IsRewardEntry(e) == MatchAt(e, "Mining Reward: ", 1) /\ Len(Words(e)) = 6

RewardRecipient(e) == Words(e)[6]

\* C16: get_balance(address) credits a reward entry only when the entry's
\* recipient equals address: a reward entry of the chain whose recipient is
\* another address adds nothing to get_balance(address).
C16_RewardOnlyToRecipient ==
    (Exists /\ AllReturned) =>
        \A i \in 2..Len(blockchain.chain) :
            LET entries == Split(blockchain.chain[i].data, " | ")
            IN  \A k \in 1..Len(entries), x \in QueryAddresses :
                    (IsRewardEntry(entries[k]) /\ RewardRecipient(entries[k]) # x)
                        => EntryEffect(entries[k], x) = Returned(0)

\* A transfer entry between two addresses of the closed set Accounts.
IsClosedTransfer(e) ==
    \E sender \in Accounts, receiver \in Accounts, amount \in Amounts :
        e = TransferText(sender, amount, receiver)

\* Every non-genesis payload of the chain holds transfer entries only.
TransfersOnly(bc) ==
    \A i \in 2..Len(bc.chain) :
        LET entries == Split(bc.chain[i].data, " | ")
        IN  \A k \in 1..Len(entries) : IsClosedTransfer(entries[k])

RECURSIVE SumOfBalances(_, _)
SumOfBalances(bc, addresses) ==
    IF addresses = {} THEN 0
    ELSE LET a == CHOOSE x \in addresses : TRUE
         IN  GetBalance(bc, a).balance + SumOfBalances(bc, addresses \ {a})

ReturnedOnInvalid(w) ==
    /\ frame[w].pc = "done"
    /\ frame[w].before # None
    /\ ~IsChainValid(frame[w].before)

\* C18 as claimed: once is_chain_valid() is false, no tamper or append makes
\* it true again.
C18_NeverRestored ==
    \A w \in Workers : ReturnedOnInvalid(w) => ~IsChainValid(blockchain)

\* C18: no append and no tamper recomputes a digest, and invalidation does not
\* spread to other blocks: the only call after which is_chain_valid() is true
\* again is a tamper_with_block call that writes to a stale block the data
\* its stored hash was computed from.
C18_RestoredOnlyByWritingBack ==
    \A w \in Workers :
        (ReturnedOnInvalid(w) /\ IsChainValid(blockchain)) =>
            /\ frame[w].op = "tamper"
            /\ LET at == frame[w].index + 1
                   before == frame[w].before
               IN  /\ blockchain = [before EXCEPT !.chain[at].data = frame[w].data]
                   /\ before.chain[at].hash # CalculateHash(before.chain[at])
                   /\ before.chain[at].hash = CalculateHash(blockchain.chain[at])

C18_Witness ==
    /\ Done("w1", "tamper")
    /\ Len(blockchain.chain) = 3
    /\ frame["w1"].index = 1
    /\ ~IsChainValid(frame["w1"].before)
    /\ IsChainValid(blockchain)

\* C19: on every chain built by construction and any sequence of
\* add_block_direct, add_transaction and mine_pending_transactions calls, one
\* after another, chain[i].index = i for every block and
\* chain[i].previous_hash = chain[i-1].hash for every i > 0.
C19_IndexAndLinks ==
    (Exists /\ ~hist.tampered /\ ~hist.loaded) =>
        \A i \in 1..Len(blockchain.chain) :
            /\ blockchain.chain[i].index = i - 1
            /\ i > 1 => blockchain.chain[i].previous_hash = blockchain.chain[i - 1].hash

C19_Witness ==
    /\ Exists /\ ~hist.tampered /\ ~hist.loaded
    /\ Len(blockchain.chain) = 3
    /\ blockchain.chain[3].index = 2
    /\ blockchain.chain[3].previous_hash = blockchain.chain[2].hash
    /\ blockchain.chain[2].data # blockchain.chain[3].data
    /\ Len(hist.mined) >= 2

\* A call of Block.mine_block is under way or has just returned.
Mining(w) == frame[w].op = "mine_block" /\ frame[w].pc \in {"mine", "done"}

(***************************************************************************)
(* C21: mine_block changes only nonce and hash.  While a block is being    *)
(* mined its index, timestamp, data and previous_hash stay as they were,   *)
(* its nonce never decreases, and after every attempt the stored hash is   *)
(* the digest of the block's current fields.                               *)
(***************************************************************************)
C21_MiningChangesNonceAndHashOnly ==
    /\ [](Mining("w1") => frame["w1"].block.hash = CalculateHash(frame["w1"].block))
    /\ [][Mining("w1") =>
            /\ frame["w1"].block.index' = frame["w1"].block.index
            /\ frame["w1"].block.timestamp' = frame["w1"].block.timestamp
            /\ frame["w1"].block.data' = frame["w1"].block.data
            /\ frame["w1"].block.previous_hash' = frame["w1"].block.previous_hash
            /\ frame["w1"].block.nonce' >= frame["w1"].block.nonce]_vars

\* Witness: a block of index 1 three attempts into the search, not yet sealed.
C21_Witness ==
    /\ frame["w1"].op = "mine_block"
    /\ frame["w1"].pc = "mine"
    /\ frame["w1"].block.index = 1
    /\ frame["w1"].block.nonce = 3
    /\ Unsealed(frame["w1"].block, frame["w1"].difficulty)

(***************************************************************************)
(* C22: mine_block terminates exactly when the predicate holds.  A call    *)
(* eventually returns with a hash that has `difficulty` leading zeros; it  *)
(* never returns while the stored hash lacks them (there is no cap on the  *)
(* attempts), and it makes no further attempt once the hash has them.      *)
(***************************************************************************)
C22_TerminatesWhenSealed ==
    /\ (frame["w1"].op = "mine_block" /\ frame["w1"].pc = "mine")
          ~> (Done("w1", "mine_block")
                /\ ~Unsealed(frame["w1"].block, frame["w1"].difficulty))
    /\ [][(frame["w1"].op = "mine_block" /\ frame["w1"].pc = "mine") =>
            IF Unsealed(frame["w1"].block, frame["w1"].difficulty)
            THEN frame["w1"].pc' = "mine"
            ELSE frame["w1"].pc' = "done" /\ frame["w1"].block' = frame["w1"].block]_vars

\* Witness: a search at the highest difficulty that returned after more than
\* twenty attempts.
C22_Witness ==
    /\ Done("w1", "mine_block")
    /\ frame["w1"].difficulty = MAX_DIFFICULTY
    /\ frame["w1"].block.nonce > 20
    /\ ZeroPrefix(frame["w1"].block.hash, MAX_DIFFICULTY)

(***************************************************************************)
(* C23: is_chain_valid() returns false for any chain whose first block has *)
(* a previous_hash other than "0" or an index other than 0, such as a      *)
(* chain loaded from records that do not start with a genesis block.       *)
(***************************************************************************)
C23_ForeignGenesisInvalid ==
    (Exists /\ AllReturned /\ Len(blockchain.chain) >= 1
        /\ (blockchain.chain[1].previous_hash # GENESIS_PREVIOUS_HASH
              \/ blockchain.chain[1].index # 0))
        => ~IsChainValid(blockchain)

(***************************************************************************)
(* C24: a load that meets a record lacking a required field fails as a     *)
(* whole: the explorer's blockchain is afterwards what it was before the   *)
(* call, never a chain built from the records before the malformed one     *)
(* and never an empty chain.                                               *)
(***************************************************************************)
C24_MalformedLoadLeavesChain ==
    \A w \in Workers :
        Done(w, "load_failed") => blockchain = frame[w].before

\* The chain that node p of network `net` holds.
ChainOf(net, p) == net.nodes[p].blockchain.chain

\* The nodes that a block broadcast by node m of network `net` is handed to.
Receivers(net, m) ==
    {p \in 1..Len(net.nodes) : InSeq(p, net.nodes[m].peers) /\ net.nodes[p].is_online}

\* Block b links to the tip of chain c.
LinksTo(b, c) == c[Len(c)].hash = b.previous_hash

(***************************************************************************)
(* C25, as stated: a node that is handed a block appends it and answers    *)
(* true exactly when the block's previous_hash is the hash of the node's   *)
(* tip; otherwise its chain stays as it was and it answers false.          *)
(***************************************************************************)
C25_AcceptsOnLink ==
    /\ call.op = "validate_and_add_block" =>
          LET p == call.result.node
              b == call.result.block
              was == ChainOf(call.before, p)
          IN  /\ call.result.accepted = LinksTo(b, was)
              /\ ChainOf(network, p) = IF LinksTo(b, was) THEN Append(was, b) ELSE was
    /\ (call.op = "random_mining_round" /\ call.result.mined) =>
          LET m == call.result.miner
              b == GetLatestBlock(network.nodes[m].blockchain)
          IN  \A p \in Receivers(call.before, m) :
                LET was == ChainOf(call.before, p)
                IN  ChainOf(network, p) = IF LinksTo(b, was) THEN Append(was, b) ELSE was

(***************************************************************************)
(* C25, amended: a node that is handed a block appends it and answers true *)
(* exactly when the block's index is the length of the node's chain and    *)
(* its previous_hash is the hash of the node's tip; otherwise its chain    *)
(* stays as it was and it answers false.                                   *)
(***************************************************************************)
C25_AcceptsOnIndexAndLink ==
    /\ call.op = "validate_and_add_block" =>
          LET p == call.result.node
              b == call.result.block
              was == ChainOf(call.before, p)
              fits == Len(was) = b.index /\ LinksTo(b, was)
          IN  /\ call.result.accepted = fits
              /\ ChainOf(network, p) = IF fits THEN Append(was, b) ELSE was
    /\ (call.op = "random_mining_round" /\ call.result.mined) =>
          LET m == call.result.miner
              b == GetLatestBlock(network.nodes[m].blockchain)
          IN  \A p \in Receivers(call.before, m) :
                LET was == ChainOf(call.before, p)
                    fits == Len(was) = b.index /\ LinksTo(b, was)
                IN  ChainOf(network, p) = IF fits THEN Append(was, b) ELSE was

\* Witness: a node turned down a block that links to its tip but carries
\* another index than the length of its chain.
C25_Witness ==
    /\ call.op = "validate_and_add_block"
    /\ ~call.result.accepted
    /\ LinksTo(call.result.block, ChainOf(call.before, call.result.node))
    /\ ChainOf(network, call.result.node) = ChainOf(call.before, call.result.node)

(***************************************************************************)
(* C26: after any number of add_node calls, each node holding only its     *)
(* genesis block, check_consensus() returns true.                          *)
(***************************************************************************)
C26_FreshNodesAgree ==
    (/\ network.nodes # <<>>
     /\ \A n \in 1..Len(network.nodes) :
            /\ network.nodes[n].is_online
            /\ Len(ChainOf(network, n)) = 1
            /\ ChainOf(network, n)[1].data = GENESIS_DATA)
        => CheckConsensus(network)

(***************************************************************************)
(* C27: after any sequence of add_node calls the peers form a full mesh:   *)
(* every node's peers are all the other nodes, each once, never the node   *)
(* itself, and the relation is symmetric.                                  *)
(***************************************************************************)
C27_PeersFullMesh ==
    \A n \in 1..Len(network.nodes) :
        LET peers == network.nodes[n].peers
        IN  /\ {peers[i] : i \in 1..Len(peers)} = (1..Len(network.nodes)) \ {n}
            /\ Len(peers) = Len(network.nodes) - 1
            /\ \A i \in 1..Len(peers) : InSeq(n, network.nodes[peers[i]].peers)

\* Witness: three nodes; the second is connected to the first and the third.
C27_Witness ==
    /\ Len(network.nodes) = MaxNodes
    /\ network.nodes[2].peers = <<1, 3>>
    /\ network.nodes[1].peers = <<2, 3>>

(***************************************************************************)
(* C28: random_mining_round with a non-empty pool and an online node makes *)
(* exactly one online node mine exactly one block, whose payload holds all *)
(* pooled transactions in pool order; the other nodes keep their chain or  *)
(* append that very block; the pool is emptied.  With an empty pool, no    *)
(* nodes or no online node the round changes nothing.                      *)
(***************************************************************************)
C28_RoundMinesPoolOnce ==
    call.op = "random_mining_round" =>
        LET was == call.before
        IN  IF was.transaction_pool = <<>> \/ OnlineNodes(was) = {}
            THEN ~call.result.mined /\ network = was
            ELSE /\ call.result.mined
                 /\ call.result.miner \in OnlineNodes(was)
                 /\ network.transaction_pool = <<>>
                 /\ Len(network.nodes) = Len(was.nodes)
                 /\ LET m == call.result.miner
                        b == GetLatestBlock(network.nodes[m].blockchain)
                        label == "[" \o was.nodes[m].node_id \o "] "
                    IN  /\ ChainOf(network, m) = Append(ChainOf(was, m), b)
                        /\ Prefix(b.data, Len(label)) = label
                        /\ Split(SubSeq(b.data, Len(label) + 1, Len(b.data)), DELIMITER)
                              = was.transaction_pool
                        /\ \A p \in (1..Len(was.nodes)) \ {m} :
                              /\ ChainOf(network, p) \in
                                    {ChainOf(was, p), Append(ChainOf(was, p), b)}
                              /\ [network.nodes[p] EXCEPT !.blockchain.chain = <<>>]
                                    = [was.nodes[p] EXCEPT !.blockchain.chain = <<>>]
                        /\ [network.nodes[m] EXCEPT !.blockchain.chain = <<>>]
                              = [was.nodes[m] EXCEPT !.blockchain.chain = <<>>]

\* Witness: a round over a pool of two transactions in a network of three
\* nodes; one peer took the block, another did not.
C28_Witness ==
    /\ call.op = "random_mining_round"
    /\ call.result.mined
    /\ Len(call.before.transaction_pool) = 2
    /\ call.before.transaction_pool[1] # call.before.transaction_pool[2]
    /\ Len(network.nodes) = MaxNodes
    /\ \E p, q \in (1..MaxNodes) \ {call.result.miner} :
          /\ Len(ChainOf(network, p)) = Len(ChainOf(call.before, p)) + 1
          /\ ChainOf(network, q) = ChainOf(call.before, q)

(***************************************************************************)
(* C29: TransactionPool.add_transaction appends the transaction and        *)
(* returns True exactly when the sender's balance (0 when the sender has   *)
(* none) is at least amount + fee; otherwise it returns False and the list *)
(* is unchanged.  The balances are unchanged in both cases.                *)
(***************************************************************************)
C29_AddedIffAffordable ==
    call.op = "add_transaction" =>
        LET was == call.before
            r == call.result
            balance == IF r.sender \in DOMAIN was.balances
                       THEN was.balances[r.sender] ELSE 0
        IN  /\ r.returned = (balance >= r.amount + r.fee)
            /\ tx_pool.balances = was.balances
            /\ IF r.returned
               THEN /\ Len(tx_pool.transactions) = Len(was.transactions) + 1
                    /\ SubSeq(tx_pool.transactions, 1, Len(was.transactions))
                          = was.transactions
                    /\ LET added == tx_pool.transactions[Len(tx_pool.transactions)]
                       IN  /\ added.sender = r.sender
                           /\ added.receiver = r.receiver
                           /\ added.amount = r.amount
                           /\ added.fee = r.fee
               ELSE tx_pool.transactions = was.transactions

\* Witness: a transaction was taken whose amount and fee use up the sender's
\* balance to the last coin.
C29_Witness ==
    /\ call.op = "add_transaction"
    /\ call.result.returned
    /\ call.result.sender \in DOMAIN tx_pool.balances
    /\ tx_pool.balances[call.result.sender] = call.result.amount + call.result.fee
    /\ Len(tx_pool.transactions) = 2

(***************************************************************************)
(* C30: get_pending_transactions(limit) returns at most `limit`            *)
(* transactions of the pool, in non-increasing order of fee; none that is  *)
(* left out pays more than one that is returned; transactions of equal fee *)
(* are returned, and preferred, in the order they were added; the pool is  *)
(* not modified.                                                           *)
(***************************************************************************)
C30_PendingByFee ==
    call.op = "get_pending_transactions" =>
        LET all == call.before.transactions
            out == call.result.returned
            limit == call.result.limit
        IN  /\ tx_pool = call.before
            /\ Len(out) = IF limit < Len(all) THEN limit ELSE Len(all)
            /\ \A i \in 1..(Len(out) - 1) : out[i].fee >= out[i + 1].fee
            /\ \E place \in [1..Len(out) -> 1..Len(all)] :
                  /\ \A i \in 1..Len(out) : all[place[i]] = out[i]
                  /\ \A i, j \in 1..Len(out) :
                        /\ i # j => place[i] # place[j]
                        /\ (i < j /\ out[i].fee = out[j].fee) => place[i] < place[j]
                  /\ \A k \in (1..Len(all)) \ {place[i] : i \in 1..Len(out)} :
                        \A i \in 1..Len(out) :
                            \/ all[k].fee < out[i].fee
                            \/ all[k].fee = out[i].fee /\ place[i] < k

\* Witness: of three transactions, two of them paying the same fee, the two
\* that were asked for are the one paying most and the earlier of the others.
C30_Witness ==
    /\ call.op = "get_pending_transactions"
    /\ call.result.limit = 2
    /\ Len(call.before.transactions) = 3
    /\ call.before.transactions[1].fee = call.before.transactions[2].fee
    /\ call.before.transactions[1] # call.before.transactions[2]
    /\ call.before.transactions[3].fee > call.before.transactions[1].fee
    /\ call.result.returned = <<call.before.transactions[3], call.before.transactions[1]>>

(***************************************************************************)
(* C31: mining a freshly constructed block at a difficulty of 1 or more    *)
(* changes its hash: the hash stored when mine_block returns differs from  *)
(* the hash the constructor stored.                                        *)
(***************************************************************************)
C31_MiningChangesHash ==
    (Done("w1", "mine_block") /\ frame["w1"].difficulty >= 1) =>
        frame["w1"].block.hash # CalculateHash([frame["w1"].block EXCEPT !.nonce = 0])

(***************************************************************************)
(* C32: is_chain_valid() and get_balance(address) are read-only.  When     *)
(* either returns, on a valid chain or a tampered one, every block field,  *)
(* the chain length, pending_transactions and difficulty are what the call *)
(* found; is_chain_valid answers with a boolean and does not raise.        *)
(***************************************************************************)
C32_QueriesReadOnly ==
    \A w \in Workers :
        /\ (Done(w, "is_chain_valid") \/ Done(w, "get_balance")) =>
              /\ blockchain.chain = frame[w].before.chain
              /\ blockchain.pending_transactions = frame[w].before.pending_transactions
              /\ blockchain.difficulty = frame[w].before.difficulty
        /\ Done(w, "is_chain_valid") =>
              /\ ~frame[w].result.raises
              /\ frame[w].result.valid \in BOOLEAN

\* Witness: validation of a tampered chain of three blocks, with a transfer
\* pending, answered false.
C32_Witness ==
    /\ Done("w1", "is_chain_valid")
    /\ ~frame["w1"].result.valid
    /\ hist.tampered
    /\ Len(blockchain.chain) = MaxChain
    /\ blockchain.pending_transactions # <<>>

(***************************************************************************)
(* C33: a Blockchain is append-only.  No step of add_block_direct,         *)
(* add_transaction, mine_pending_transactions, tamper_with_block,          *)
(* is_chain_valid or get_balance shortens the chain; a block in the chain  *)
(* keeps its position, index, timestamp, previous_hash, nonce and hash; a  *)
(* new block is added at the end, one at a time; and a block's data is     *)
(* changed by tamper_with_block alone.                                     *)
(***************************************************************************)
C33_AppendOnly ==
    [][(Exists /\ Exists') =>
        /\ Len(blockchain.chain') >= Len(blockchain.chain)
        /\ Len(blockchain.chain') <= Len(blockchain.chain) + 1
        /\ \A i \in 1..Len(blockchain.chain) :
              /\ blockchain.chain'[i].index = blockchain.chain[i].index
              /\ blockchain.chain'[i].timestamp = blockchain.chain[i].timestamp
              /\ blockchain.chain'[i].previous_hash = blockchain.chain[i].previous_hash
              /\ blockchain.chain'[i].nonce = blockchain.chain[i].nonce
              /\ blockchain.chain'[i].hash = blockchain.chain[i].hash
              /\ blockchain.chain'[i].data # blockchain.chain[i].data =>
                    \E w \in Workers : frame[w].pc = "idle" /\ frame'[w].op = "tamper"]_vars

\* Witness: a chain of three blocks, the second tampered with and the third
\* added by a flush afterwards, on which a balance was asked for.
C33_Witness ==
    /\ Done("w1", "get_balance")
    /\ Len(blockchain.chain) = MaxChain
    /\ blockchain.chain[2].data \in FreeTexts \ DirectData
    /\ blockchain.chain[3].hash = CalculateHash(blockchain.chain[3])
    /\ Contains("Mining Reward", blockchain.chain[3].data)

C35_RoundKeepsConsensus ==
    (/\ call.op = "random_mining_round"
     /\ call.result.mined
     /\ CheckConsensus(call.before)) =>
        LET miner == call.result.miner
            mined_block == GetLatestBlock(network.nodes[miner].blockchain)
        IN  /\ \A p \in OnlineNodes(network) \ {miner} :
                    ChainOf(network, p) = Append(ChainOf(call.before, p), mined_block)
            /\ CheckConsensus(network)

\* Witness: three online nodes in consensus, then a round mined by one of
\* them and accepted by the two others.
C35_Witness ==
    /\ call.op = "random_mining_round"
    /\ call.result.mined
    /\ CheckConsensus(call.before)
    /\ Cardinality(OnlineNodes(network)) = MaxNodes
    /\ \A p \in OnlineNodes(network) : Len(ChainOf(network, p)) = 2

(***************************************************************************)
(* C36: while a node's is_online flag is false its chain does not change   *)
(* under the network's operations: mine_block called on it does nothing,   *)
(* random_mining_round never selects it, and no peer's broadcast adds a    *)
(* block to it.                                                            *)
(***************************************************************************)
C36_OfflineChainFrozen ==
    [][/\ \A n \in 1..Len(network.nodes) :
            ~network.nodes[n].is_online =>
                network'.nodes[n].blockchain = network.nodes[n].blockchain
       /\ (call'.op = "mine_block" /\ ~network.nodes[call'.result.node].is_online) =>
                network' = network
       /\ (call'.op = "random_mining_round" /\ call'.result.mined) =>
                network.nodes[call'.result.miner].is_online]_vars

\* Witness: mine_block was called on an offline node whose two online peers
\* have mined a block and hold it.
C36_Witness ==
    /\ call.op = "mine_block"
    /\ ~network.nodes[call.result.node].is_online
    /\ \A p \in OnlineNodes(network) : Len(ChainOf(network, p)) = 2
    /\ Cardinality(OnlineNodes(network)) = MaxNodes - 1

(***************************************************************************)
(* C37: each node owns its chain exclusively: after a block has been       *)
(* broadcast and accepted, tamper_with_block on one node's chain changes   *)
(* neither the block data held by any other node nor any other node's      *)
(* is_chain_valid() result.                                                *)
(***************************************************************************)
C37_TamperStaysLocal ==
    (/\ call.op = "tamper_with_block"
     /\ \E p, q \in 1..Len(call.before.nodes) :
            /\ p # q
            /\ Len(ChainOf(call.before, p)) >= 2
            /\ Len(ChainOf(call.before, q)) >= 2
            /\ ChainOf(call.before, p)[2] = ChainOf(call.before, q)[2]) =>
        \A m \in 1..Len(network.nodes) \ {call.result.node} :
            /\ \A j \in 1..Len(ChainOf(network, m)) :
                    ChainOf(network, m)[j].data = ChainOf(call.before, m)[j].data
            /\ IsChainValid(network.nodes[m].blockchain)
                    = IsChainValid(call.before.nodes[m].blockchain)

(***************************************************************************)
(* C38: every Blockchain that is held has at least one block at all times, *)
(* so that get_latest_block() is defined: after any sequence of create,    *)
(* append, flush, tamper and load_blockchain calls, a load of an empty     *)
(* record array and a load that fails part-way included.                   *)
(***************************************************************************)
C38_NeverEmpty ==
    \A w \in Workers :
        (Exists /\ frame[w].pc \in {"idle", "done"} /\ hist.loaded) =>
            Len(blockchain.chain) >= 1

\* The total of amount + fee over the transactions of `sender` among the
\* first k of `transactions`.
RECURSIVE PendingSpending(_, _, _)
PendingSpending(transactions, sender, k) ==
    IF k = 0 THEN 0
    ELSE PendingSpending(transactions, sender, k - 1)
            + (IF transactions[k].sender = sender
               THEN transactions[k].amount + transactions[k].fee
               ELSE 0)

(***************************************************************************)
(* C39: the TransactionPool never holds more pending spending than a       *)
(* sender can cover: after any sequence of update_balance and              *)
(* add_transaction calls with non-negative amounts, for every sender the   *)
(* total of amount + fee over the sender's pending transactions is at most *)
(* balances[sender].                                                       *)
(***************************************************************************)
C39_PendingCovered ==
    \A sender \in Accounts :
        PendingSpending(tx_pool.transactions, sender, Len(tx_pool.transactions))
            <= BalanceOf(tx_pool.balances, sender)

====
